---- MODULE Spec2Model ----
(***************************************************************************)
(* Housing-map project: the unit store (FirestoreService), the bulk        *)
(* upsert (upload_from_dataframe), the identity deriver                    *)
(* (_sanitize_unit_id) and the batch geocode/scrape pipeline               *)
(* (HousingDataProcessor.process_all_units).                               *)
(*                                                                         *)
(* Text is modelled as a sequence of one-character strings, so that the    *)
(* character-level steps of the code (lower, replace, re.sub, strip) are   *)
(* computed as the code computes them.  A cell of a DataFrame or a field   *)
(* of a document is a record [kind, text]: kind "str" | "int" | "float"    *)
(* for a value, "nan" for pandas' missing value, "none" for Python's None. *)
(***************************************************************************)
EXTENDS Integers, Sequences, FiniteSets, TLC

VARIABLES
    units,      \* collection 'units': document id -> document (field -> value)
    failures,   \* collection 'geocoding_failures': sequence of records
    now,        \* datetime.now(), in whole seconds
    last,       \* the last store operation: its arguments, result, time, store before
    seen,       \* rows earlier upload_from_dataframe calls went through without a store error
    rowsUploaded, \* number of rows uploaded so far (bounded by MaxTotalRows)
    edits,      \* number of user edits so far (bounded by MaxEdits)
    passPc,     \* process_all_units: "idle" | "running" | "returned" | "raised"
    passDf,     \* the units_df argument of the pass (sequence of rows)
    selected,   \* units_to_process (sequence of rows)
    batch,      \* index i of the batch loop
    workers,    \* per selected unit: the state of its _process_unit future
    results,    \* the results dictionary of the pass
    calls,      \* collaborator calls made since the pass started
    failBase,   \* Len(failures) when the pass started
    passes,     \* number of passes started (bounded by MaxPasses)
    idArgs,     \* arguments of the _sanitize_unit_id calls under study
    idCalls,    \* the calls made: sequence of [args, t, id]
    normRow,    \* the row_data argument of the _parse_and_clean_data call under study
    normOut,    \* what that call returned, NotNormalized before the call
    clear,      \* clear_database: its position, stream, batch, count and commits
    upsert      \* an upload of one row between its read and its write of the document

vars == <<units, failures, now, last, seen, rowsUploaded, edits, passPc,
          passDf, selected, batch, workers, results, calls, failBase, passes,
          idArgs, idCalls, normRow, normOut, clear, upsert>>

storeVars == <<units, failures, last, seen, rowsUploaded, edits>>
passVars == <<passPc, passDf, selected, batch, workers, results, calls,
              failBase, passes>>
idVars == <<idArgs, idCalls>>
normVars == <<normRow, normOut>>
clearVars == <<clear>>
raceVars == <<upsert>>

(***************************************************************************)
(* Bounds of the model.                                                    *)
(***************************************************************************)
MaxClock == 1        \* the clock runs from 0 to MaxClock seconds
MaxRows == 2         \* rows of one uploaded DataFrame
MaxTotalRows == 3    \* rows uploaded over a whole behaviour
MaxRefreshRows == 3  \* rows uploaded over a behaviour with refreshes
MaxRaceRows == 3     \* one-row uploads over a behaviour with interleaved edits
MaxReprocessUnits == 2 \* rows of the upload that fills the store before reprocessing
MaxEdits == 1        \* user edits (status, favorite) over a whole behaviour
MaxFaults == 1       \* rows of one upload on which the store raises
MaxPassUnits == 3    \* units in the store when a pass runs
MaxPasses == 1       \* passes started over a whole behaviour
MaxAddrLen == 2      \* length of the address argument of the identity deriver
MaxUnitLen == 1      \* length of the unit argument of the identity deriver
MaxIdCalls == 2      \* calls of the identity deriver over a whole behaviour
MaxZipLen == 7       \* length of the zip texts given to the normalizer
MaxParkingWords == 2 \* words of the parking texts given to the normalizer
MaxNormUploads == 1  \* uploads of the row given to the normalizer
MaxClearUnits == 3   \* units in the store when it is cleared
MaxClearFailures == 3 \* failure records in the log when it is cleared
MutationLimit == 2   \* mutations per commit (500 in the store and in clear_database)
batch_size == 2      \* HousingDataProcessor(batch_size=...)
max_workers == 2     \* HousingDataProcessor(max_workers=...)

(***************************************************************************)
(* Text.                                                                   *)
(***************************************************************************)
UpperCase == <<"A", "B", "C", "D", "E", "F", "G", "H", "I", "J", "K", "L", "M",
               "N", "O", "P", "Q", "R", "S", "T", "U", "V", "W", "X", "Y", "Z">>
LowerCase == <<"a", "b", "c", "d", "e", "f", "g", "h", "i", "j", "k", "l", "m",
               "n", "o", "p", "q", "r", "s", "t", "u", "v", "w", "x", "y", "z">>
Digits == <<"0", "1", "2", "3", "4", "5", "6", "7", "8", "9">>

Range(s) == {s[i] : i \in DOMAIN s}

\* str.lower() on one character
LowerChar(c) ==
    IF \E i \in DOMAIN UpperCase : UpperCase[i] = c
    THEN LowerCase[CHOOSE i \in DOMAIN UpperCase : UpperCase[i] = c]
    ELSE c

\* str.lower() left out
LowerUnchanged(s) == s

\* str.lower()
Lower(s) == [i \in DOMAIN s |-> LowerChar(s[i])]

\* str.replace(' ', '-')
ReplaceSpace(s) == [i \in DOMAIN s |-> IF s[i] = " " THEN "-" ELSE s[i]]

\* the class [\w\-_] of the regular expression
IsIdChar(c) == c \in Range(UpperCase) \cup Range(LowerCase) \cup Range(Digits) \cup {"_", "-"}

IsDigitChar(c) == c \in Range(Digits)

\* re.sub(r'[^\w\-_]', '', s)
KeepIdChars(s) == SelectSeq(s, IsIdChar)

\* re.sub(r'--+', '-', s)
RECURSIVE CollapseHyphens(_)
CollapseHyphens(s) ==
    IF Len(s) < 2 THEN s
    ELSE IF s[1] = "-" /\ s[2] = "-" THEN CollapseHyphens(Tail(s))
    ELSE <<s[1]>> \o CollapseHyphens(Tail(s))

RECURSIVE LStripChars(_, _)
LStripChars(s, cs) ==
    IF s # <<>> /\ s[1] \in cs THEN LStripChars(Tail(s), cs) ELSE s

RECURSIVE RStripChars(_, _)
RStripChars(s, cs) ==
    IF s # <<>> /\ s[Len(s)] \in cs THEN RStripChars(SubSeq(s, 1, Len(s) - 1), cs) ELSE s

\* str.strip('-')
StripHyphens(s) == RStripChars(LStripChars(s, {"-"}), {"-"})

\* str.strip()
Strip(s) == RStripChars(LStripChars(s, {" "}), {" "})

\* s[:n]
Prefix(s, n) == SubSeq(s, 1, IF Len(s) < n THEN Len(s) ELSE n)

\* position of the first occurrence of character c in s, 0 when absent
FirstIndex(s, c) ==
    IF c \in Range(s) THEN CHOOSE i \in DOMAIN s : s[i] = c /\ \A j \in 1..(i - 1) : s[j] # c
    ELSE 0

\* sub in s
Contains(s, sub) ==
    \E i \in 1..(Len(s) - Len(sub) + 1) : \A j \in DOMAIN sub : s[i + j - 1] = sub[j]

\* str.replace('_', c)
ReplaceUnderscore(s, c) == [i \in DOMAIN s |-> IF s[i] = "_" THEN c ELSE s[i]]

\* the end of the run of digits of s that starts at position i (i - 1: no digit)
RECURSIVE DigitRunEnd(_, _)
DigitRunEnd(s, i) ==
    IF i <= Len(s) /\ s[i] \in {"0", "1", "2", "3", "4", "5", "6", "7", "8", "9"}
    THEN DigitRunEnd(s, i + 1)
    ELSE i - 1

\* re.findall(r'\d+\.?\d*', s): the first match, <<>> when there is none
FirstNumber(s) ==
    IF \A i \in DOMAIN s : s[i] \notin {"0", "1", "2", "3", "4", "5", "6", "7", "8", "9"}
    THEN <<>>
    ELSE LET i == CHOOSE i \in DOMAIN s :
                      /\ s[i] \in {"0", "1", "2", "3", "4", "5", "6", "7", "8", "9"}
                      /\ \A j \in 1..(i - 1) :
                            s[j] \notin {"0", "1", "2", "3", "4", "5", "6", "7", "8", "9"}
             j == DigitRunEnd(s, i)
             k == IF j < Len(s) /\ s[j + 1] = "." THEN DigitRunEnd(s, j + 2) ELSE j
         IN  SubSeq(s, i, k)

\* datetime.now().strftime('%Y%m%d%H%M%S'): the digits of the clock
TimeStamp(t) == <<Digits[t + 1]>>

(***************************************************************************)
(* Cells and values.                                                       *)
(***************************************************************************)
S(text) == [kind |-> "str", text |-> text]
NaN == [kind |-> "nan", text |-> <<>>]
None == [kind |-> "none", text |-> <<>>]

\* pd.isna(value) or value == '' or value is None
IsBlank(v) == v.kind \in {"nan", "none"} \/ (v.kind = "str" /\ v.text = <<>>)

\* the digits of int(s) for a digit string s: leading zeros do not survive
RECURSIVE StripZeros(_)
StripZeros(s) == IF Len(s) > 1 /\ s[1] = "0" THEN StripZeros(Tail(s)) ELSE s

\* str.isdigit()
IsDigitText(s) == s # <<>> /\ \A i \in DOMAIN s : IsDigitChar(s[i])

\* float(s) succeeds: an optionally signed digit string, blanks around it ignored
IsFloatText(s) ==
    LET b == Strip(s)
        d == IF b # <<>> /\ b[1] \in {"-", "+"} THEN Tail(b) ELSE b
    IN  IsDigitText(d)

\* int(float(s)) for a match of FirstNumber: the digits before the point
IntOfFloatText(s) ==
    [kind |-> "int",
     text |-> StripZeros(IF "." \in Range(s) THEN SubSeq(s, 1, FirstIndex(s, ".") - 1) ELSE s)]

\* float(s), for a text on which it succeeds
FloatOf(s) ==
    LET b == Strip(s)
        neg == b # <<>> /\ b[1] = "-"
        d == StripZeros(IF b # <<>> /\ b[1] \in {"-", "+"} THEN Tail(b) ELSE b)
    IN  [kind |-> "float", text |-> IF neg /\ d # <<"0">> THEN <<"-">> \o d ELSE d]

(***************************************************************************)
(* Identity deriver: FirestoreService._sanitize_unit_id.                   *)
(***************************************************************************)
MaxIdLen == 1500
MinIdLen == 3

\* lines 38-40: the sanitized text before the fallback
SanitizedText(address, unit_number, zip_code) ==
    LET raw_id == ReplaceSpace(Lower(address \o <<"_">> \o unit_number \o <<"_">> \o zip_code))
    IN  StripHyphens(CollapseHyphens(KeepIdChars(raw_id)))

\* line 43: the fallback id
FallbackId(t) == <<"u", "n", "i", "t", "_">> \o TimeStamp(t)

\* the timestamp appended to every id instead of used as the fallback
SanitizeUnitIdStamped(address, unit_number, zip_code, t) ==
    Prefix(SanitizedText(address, unit_number, zip_code) \o <<"_">> \o TimeStamp(t), MaxIdLen)

_sanitize_unit_id(address, unit_number, zip_code, t) ==
    LET sanitized == SanitizedText(address, unit_number, zip_code)
    IN  Prefix(IF sanitized = <<>> \/ Len(sanitized) < MinIdLen THEN FallbackId(t) ELSE sanitized,
               MaxIdLen)

(***************************************************************************)
(* The vocabulary of the normalizer (lines 54-78) and the words it looks    *)
(* for in free text.                                                       *)
(***************************************************************************)
\* lines 54-75
AMENITY_CATEGORIES ==
    [community |-> <<"clubhouse", "fitness_center", "gym", "pool", "spa", "hot_tub",
        "sauna", "business_center", "conference_room", "rooftop_deck",
        "courtyard", "playground", "dog_park", "barbecue_area", "fire_pit",
        "game_room", "theater_room", "library", "concierge", "doorman",
        "security">>,
     indoor |-> <<"air_conditioning", "heating", "hardwood_floors", "carpet",
        "tile_floors", "walk_in_closet", "ceiling_fans", "fireplace",
        "balcony", "patio", "bay_windows", "high_ceilings", "loft", "den",
        "office_space">>,
     kitchen |-> <<"dishwasher", "garbage_disposal", "microwave", "refrigerator", "stove",
        "oven", "granite_counters", "stainless_steel_appliances", "island",
        "breakfast_bar", "pantry", "wine_fridge">>,
     other |-> <<"parking_garage", "covered_parking", "laundry_in_unit",
        "laundry_on_site", "elevator", "wheelchair_accessible", "storage_unit",
        "bike_storage">>]

\* line 78
UTILITIES == <<"electricity", "gas", "water", "sewer", "trash", "internet", "cable">>

\* the characters of each amenity and utility name
Spelling ==
    [clubhouse |->
        <<"c", "l", "u", "b", "h", "o", "u", "s", "e">>,
     fitness_center |->
        <<"f", "i", "t", "n", "e", "s", "s", "_", "c", "e", "n", "t", "e", "r">>,
     gym |->
        <<"g", "y", "m">>,
     pool |->
        <<"p", "o", "o", "l">>,
     spa |->
        <<"s", "p", "a">>,
     hot_tub |->
        <<"h", "o", "t", "_", "t", "u", "b">>,
     sauna |->
        <<"s", "a", "u", "n", "a">>,
     business_center |->
        <<"b", "u", "s", "i", "n", "e", "s", "s", "_", "c", "e", "n", "t", "e",
          "r">>,
     conference_room |->
        <<"c", "o", "n", "f", "e", "r", "e", "n", "c", "e", "_", "r", "o", "o",
          "m">>,
     rooftop_deck |->
        <<"r", "o", "o", "f", "t", "o", "p", "_", "d", "e", "c", "k">>,
     courtyard |->
        <<"c", "o", "u", "r", "t", "y", "a", "r", "d">>,
     playground |->
        <<"p", "l", "a", "y", "g", "r", "o", "u", "n", "d">>,
     dog_park |->
        <<"d", "o", "g", "_", "p", "a", "r", "k">>,
     barbecue_area |->
        <<"b", "a", "r", "b", "e", "c", "u", "e", "_", "a", "r", "e", "a">>,
     fire_pit |->
        <<"f", "i", "r", "e", "_", "p", "i", "t">>,
     game_room |->
        <<"g", "a", "m", "e", "_", "r", "o", "o", "m">>,
     theater_room |->
        <<"t", "h", "e", "a", "t", "e", "r", "_", "r", "o", "o", "m">>,
     library |->
        <<"l", "i", "b", "r", "a", "r", "y">>,
     concierge |->
        <<"c", "o", "n", "c", "i", "e", "r", "g", "e">>,
     doorman |->
        <<"d", "o", "o", "r", "m", "a", "n">>,
     security |->
        <<"s", "e", "c", "u", "r", "i", "t", "y">>,
     air_conditioning |->
        <<"a", "i", "r", "_", "c", "o", "n", "d", "i", "t", "i", "o", "n", "i",
          "n", "g">>,
     heating |->
        <<"h", "e", "a", "t", "i", "n", "g">>,
     hardwood_floors |->
        <<"h", "a", "r", "d", "w", "o", "o", "d", "_", "f", "l", "o", "o", "r",
          "s">>,
     carpet |->
        <<"c", "a", "r", "p", "e", "t">>,
     tile_floors |->
        <<"t", "i", "l", "e", "_", "f", "l", "o", "o", "r", "s">>,
     walk_in_closet |->
        <<"w", "a", "l", "k", "_", "i", "n", "_", "c", "l", "o", "s", "e", "t">>,
     ceiling_fans |->
        <<"c", "e", "i", "l", "i", "n", "g", "_", "f", "a", "n", "s">>,
     fireplace |->
        <<"f", "i", "r", "e", "p", "l", "a", "c", "e">>,
     balcony |->
        <<"b", "a", "l", "c", "o", "n", "y">>,
     patio |->
        <<"p", "a", "t", "i", "o">>,
     bay_windows |->
        <<"b", "a", "y", "_", "w", "i", "n", "d", "o", "w", "s">>,
     high_ceilings |->
        <<"h", "i", "g", "h", "_", "c", "e", "i", "l", "i", "n", "g", "s">>,
     loft |->
        <<"l", "o", "f", "t">>,
     den |->
        <<"d", "e", "n">>,
     office_space |->
        <<"o", "f", "f", "i", "c", "e", "_", "s", "p", "a", "c", "e">>,
     dishwasher |->
        <<"d", "i", "s", "h", "w", "a", "s", "h", "e", "r">>,
     garbage_disposal |->
        <<"g", "a", "r", "b", "a", "g", "e", "_", "d", "i", "s", "p", "o", "s",
          "a", "l">>,
     microwave |->
        <<"m", "i", "c", "r", "o", "w", "a", "v", "e">>,
     refrigerator |->
        <<"r", "e", "f", "r", "i", "g", "e", "r", "a", "t", "o", "r">>,
     stove |->
        <<"s", "t", "o", "v", "e">>,
     oven |->
        <<"o", "v", "e", "n">>,
     granite_counters |->
        <<"g", "r", "a", "n", "i", "t", "e", "_", "c", "o", "u", "n", "t", "e",
          "r", "s">>,
     stainless_steel_appliances |->
        <<"s", "t", "a", "i", "n", "l", "e", "s", "s", "_", "s", "t", "e", "e",
          "l", "_", "a", "p", "p", "l", "i", "a", "n", "c", "e", "s">>,
     island |->
        <<"i", "s", "l", "a", "n", "d">>,
     breakfast_bar |->
        <<"b", "r", "e", "a", "k", "f", "a", "s", "t", "_", "b", "a", "r">>,
     pantry |->
        <<"p", "a", "n", "t", "r", "y">>,
     wine_fridge |->
        <<"w", "i", "n", "e", "_", "f", "r", "i", "d", "g", "e">>,
     parking_garage |->
        <<"p", "a", "r", "k", "i", "n", "g", "_", "g", "a", "r", "a", "g", "e">>,
     covered_parking |->
        <<"c", "o", "v", "e", "r", "e", "d", "_", "p", "a", "r", "k", "i", "n",
          "g">>,
     laundry_in_unit |->
        <<"l", "a", "u", "n", "d", "r", "y", "_", "i", "n", "_", "u", "n", "i",
          "t">>,
     laundry_on_site |->
        <<"l", "a", "u", "n", "d", "r", "y", "_", "o", "n", "_", "s", "i", "t",
          "e">>,
     elevator |->
        <<"e", "l", "e", "v", "a", "t", "o", "r">>,
     wheelchair_accessible |->
        <<"w", "h", "e", "e", "l", "c", "h", "a", "i", "r", "_", "a", "c", "c",
          "e", "s", "s", "i", "b", "l", "e">>,
     storage_unit |->
        <<"s", "t", "o", "r", "a", "g", "e", "_", "u", "n", "i", "t">>,
     bike_storage |->
        <<"b", "i", "k", "e", "_", "s", "t", "o", "r", "a", "g", "e">>,
     electricity |->
        <<"e", "l", "e", "c", "t", "r", "i", "c", "i", "t", "y">>,
     gas |->
        <<"g", "a", "s">>,
     water |->
        <<"w", "a", "t", "e", "r">>,
     sewer |->
        <<"s", "e", "w", "e", "r">>,
     trash |->
        <<"t", "r", "a", "s", "h">>,
     internet |->
        <<"i", "n", "t", "e", "r", "n", "e", "t">>,
     cable |->
        <<"c", "a", "b", "l", "e">>,
     community |->
        <<"c", "o", "m", "m", "u", "n", "i", "t", "y">>,
     indoor |->
        <<"i", "n", "d", "o", "o", "r">>,
     kitchen |->
        <<"k", "i", "t", "c", "h", "e", "n">>,
     other |->
        <<"o", "t", "h", "e", "r">>,
     hacla |->
        <<"h", "a", "c", "l", "a">>,
     bc |->
        <<"b", "c">>,
     unknown |->
        <<"u", "n", "k", "n", "o", "w", "n">>,
     owner |->
        <<"o", "w", "n", "e", "r">>,
     tenant |->
        <<"t", "e", "n", "a", "n", "t">>]

\* line 91
Studio == <<"s", "t", "u", "d", "i", "o">>

\* line 93
AbsencePhrases == {<<"n", "o", " ", "p", "a", "r", "k", "i", "n", "g">>,
                   <<"n", "o", "n", "e">>,
                   <<"n", "/", "a">>,
                   <<"n", "o", "t", " ", "a", "v", "a", "i", "l", "a", "b", "l", "e">>}

\* line 196
OwnerWords == {<<"i", "n", "c", "l", "u", "d", "e", "d">>,
               <<"o", "w", "n", "e", "r">>,
               <<"l", "a", "n", "d", "l", "o", "r", "d">>,
               <<"p", "a", "i", "d">>}

\* line 198
TenantWords == {<<"t", "e", "n", "a", "n", "t">>,
                <<"r", "e", "n", "t", "e", "r">>,
                <<"s", "e", "p", "a", "r", "a", "t", "e">>}

\* line 146: the keys of subsidy_data, in insertion order
SUBSIDIES == <<"hacla", "bc">>

\* line 150
HousingChoice == <<"h", "o", "u", "s", "i", "n", "g", " ", "c", "h", "o", "i", "c", "e">>

(***************************************************************************)
(* str(value): the text Python prints for a value.  A mapping prints as    *)
(* {'key': value, ...} with its keys in insertion order, a nested mapping  *)
(* in the same form, True and False for flags and quoted text for strings. *)
(***************************************************************************)
Quoted(text) == <<"'">> \o text \o <<"'">>

BoolText(b) == IF b THEN <<"T", "r", "u", "e">> ELSE <<"F", "a", "l", "s", "e">>

\* 'k1': v1, 'k2': v2, ... for the keys from position i on, values[i] the
\* text of the value under keys[i]
RECURSIVE DictItems(_, _, _)
DictItems(keys, values, i) ==
    IF i > Len(keys) THEN <<>>
    ELSE Quoted(Spelling[keys[i]]) \o <<":", " ">> \o values[i]
            \o (IF i < Len(keys) THEN <<",", " ">> ELSE <<>>)
            \o DictItems(keys, values, i + 1)

DictText(keys, values) == <<"{">> \o DictItems(keys, values, 1) \o <<"}">>

CATEGORIES == <<"community", "indoor", "kitchen", "other">>

\* str() of amenities_data, utilities_data and subsidy_data
DictRepr(m) ==
    IF DOMAIN m = DOMAIN AMENITY_CATEGORIES
    THEN DictText(CATEGORIES,
            [c \in DOMAIN CATEGORIES |->
                DictText(AMENITY_CATEGORIES[CATEGORIES[c]],
                    [a \in DOMAIN AMENITY_CATEGORIES[CATEGORIES[c]] |->
                        BoolText(m[CATEGORIES[c]][AMENITY_CATEGORIES[CATEGORIES[c]][a]])])])
    ELSE IF DOMAIN m = Range(UTILITIES)
    THEN DictText(UTILITIES, [u \in DOMAIN UTILITIES |-> Quoted(Spelling[m[UTILITIES[u]]])])
    ELSE DictText(SUBSIDIES, [p \in DOMAIN SUBSIDIES |-> BoolText(m[SUBSIDIES[p]])])

\* str(value) of a scalar; a float with an integral value prints with ".0"
Str(v) == IF v.kind = "nan" THEN <<"n", "a", "n">>
          ELSE IF v.kind = "none" THEN <<"N", "o", "n", "e">>
          ELSE IF v.kind = "float" THEN v.text \o <<".", "0">>
          ELSE v.text

\* str(value) at lines 147, 170 and 192, where the value is a cell of a sheet
\* or, when a stored document is parsed again, the mapping stored under
\* amenities, utilities or subsidy
StrOfValue(value) == IF value.kind = "map" THEN DictRepr(value.map) ELSE Str(value)

(***************************************************************************)
(* Record normalizer: FirestoreService._parse_and_clean_data, for the      *)
(* columns the model's rows carry.                                         *)
(***************************************************************************)
ZipKeys == {"zip_code", "zipcode", "postal_code"}
CoordKeys == {"latitude", "lat", "longitude", "lng", "lon"}
ParkingKeys == {"parking", "parking_spots"}
AmenityKeys == {"amenities", "amenity"}
UtilityKeys == {"utilities", "utility"}
SubsidyKeys == {"subsidy_accepted", "subsidies", "subsidy"}

Zero == [kind |-> "int", text |-> <<"0">>]

\* lines 90-110, for the keys parking and parking_spots
ParseParking(value) ==
    IF value.kind = "str"
    THEN LET lower == Lower(value.text)
             numbers == FirstNumber(value.text)
         IN  IF Contains(lower, Studio) THEN value
             ELSE IF \E word \in AbsencePhrases : Contains(lower, word) THEN Zero
             ELSE IF numbers # <<>> THEN IntOfFloatText(numbers)
             ELSE Zero
    ELSE [kind |-> "int", text |-> value.text]

\* lines 163-184: every amenity of every category, True for the ones the text names
ParseAmenities(value) ==
    LET value_str == Lower(StrOfValue(value))
    IN  [kind |-> "map", text |-> <<>>,
         map |-> [category \in DOMAIN AMENITY_CATEGORIES |->
                    [amenity \in Range(AMENITY_CATEGORIES[category]) |->
                        \E variation \in {Spelling[amenity],
                                          ReplaceUnderscore(Spelling[amenity], " "),
                                          ReplaceUnderscore(Spelling[amenity], "-")} :
                            Contains(value_str, variation)]]]

\* lines 188-203: every utility, with who pays for the ones the text names
ParseUtilities(value) ==
    LET value_str == Lower(StrOfValue(value))
    IN  [kind |-> "map", text |-> <<>>,
         map |-> [utility \in Range(UTILITIES) |->
                    IF Contains(value_str, Spelling[utility])
                    THEN IF \E word \in OwnerWords : Contains(value_str, word) THEN "owner"
                         ELSE IF \E word \in TenantWords : Contains(value_str, word) THEN "tenant"
                         ELSE "tenant"
                    ELSE "unknown"]]

\* lines 146-152: the two subsidy flags
ParseSubsidy(value) ==
    LET value_str == Lower(StrOfValue(value))
    IN  [kind |-> "map", text |-> <<>>,
         map |-> [hacla |-> Contains(value_str, Spelling["hacla"]),
                  bc |-> Contains(value_str, Spelling["bc"])
                            \/ Contains(value_str, HousingChoice)]]

\* the zip accepted without the length test of line 141
ParseZipAnyLength(value) ==
    LET stripped == Strip(Str(value))
        zip_str == IF "-" \in Range(stripped)
                   THEN SubSeq(stripped, 1, FirstIndex(stripped, "-") - 1)
                   ELSE stripped
    IN  IF IsDigitText(zip_str)
        THEN [kind |-> "int", text |-> StripZeros(zip_str)]
        ELSE None

\* lines 138-142: the value stored for a zip cell, None when the field is dropped
ParseZip(value) ==
    LET stripped == Strip(Str(value))
        zip_str == IF "-" \in Range(stripped)
                   THEN SubSeq(stripped, 1, FirstIndex(stripped, "-") - 1)
                   ELSE stripped
    IN  IF IsDigitText(zip_str) /\ Len(zip_str) = 5
        THEN [kind |-> "int", text |-> StripZeros(zip_str)]
        ELSE None

\* lines 205-207 and 213-216: float(value), the text itself when float() raises
ParseCoord(value) ==
    IF value.kind \in {"float", "int"} THEN [kind |-> "float", text |-> value.text]
    ELSE IF IsFloatText(value.text) THEN FloatOf(value.text)
    ELSE S(Str(value))

\* lines 80-216: the keys of the row that reach cleaned_data
CleanedKeys(row_data) ==
    {k \in DOMAIN row_data :
        /\ ~IsBlank(row_data[k])
        /\ k # "flexible_data"
        /\ (k \in ZipKeys => ParseZip(row_data[k]) # None)}

\* the key a cleaned value is stored under (lines 142, 152, 184 and 203)
CleanKey(k) ==
    IF k \in ZipKeys THEN "zip_code"
    ELSE IF k \in AmenityKeys THEN "amenities"
    ELSE IF k \in UtilityKeys THEN "utilities"
    ELSE IF k \in SubsidyKeys THEN "subsidy"
    ELSE k

\* the cleaned value of one non-blank cell
CleanValue(k, value) ==
    IF k \in ParkingKeys THEN ParseParking(value)
    ELSE IF k \in ZipKeys THEN ParseZip(value)
    ELSE IF k \in AmenityKeys THEN ParseAmenities(value)
    ELSE IF k \in UtilityKeys THEN ParseUtilities(value)
    ELSE IF k \in SubsidyKeys THEN ParseSubsidy(value)
    ELSE IF k \in CoordKeys THEN ParseCoord(value)
    ELSE S(Strip(Str(value)))

\* lines 80-216: cleaned_data after the loop over the row's items
CleanedFromRow(row_data) ==
    LET keys == CleanedKeys(row_data)
    IN  [k \in {CleanKey(c) : c \in keys} |->
            LET c == CHOOSE c \in keys : CleanKey(c) = k
            IN  CleanValue(c, row_data[c])]

(***************************************************************************)
(* The unit store: documents are functions from field names to values.     *)
(***************************************************************************)
\* DocumentReference.update(data): field-level merge
Merge(doc, data) ==
    [k \in DOMAIN doc \cup DOMAIN data |-> IF k \in DOMAIN data THEN data[k] ELSE doc[k]]

\* the store with document id replaced
Put(store, id, doc) ==
    [d \in DOMAIN store \cup {id} |-> IF d = id THEN doc ELSE store[d]]

EmptyStore == [d \in {} |-> d]

\* lines 218-221: favorite is always set to False, whatever the row holds
_parse_and_clean_data(row_data) == Merge(CleanedFromRow(row_data), [favorite |-> FALSE])

TrackingFields == {"level_of_interest", "viewing_scheduled", "availability_verified_date",
                   "amenities", "questions_for_agent", "notes"}

(***************************************************************************)
(* Upsert engine: FirestoreService.upload_from_dataframe.                  *)
(***************************************************************************)
\* row.get(col, '')
RowGet(row, col) == IF col \in DOMAIN row THEN row[col] ELSE S(<<>>)

\* the update without lines 258-260: favorite comes from the normalizer
UpdateDataNoFavoriteCopy(unit_data, existing_data, t) ==
    Merge(unit_data, [last_seen_date |-> t, status |-> "available"])

\* the update without line 256: status is left as stored
UpdateDataKeepStatus(unit_data, existing_data, t) ==
    LET stamped == Merge(unit_data, [last_seen_date |-> t])
    IN  IF "favorite" \in DOMAIN existing_data
        THEN Merge(stamped, [favorite |-> existing_data["favorite"]])
        ELSE stamped

\* the update with the batch of the call stamped on the refreshed document
UpdateDataStampsBatch(unit_data, existing_data, t) ==
    LET stamped == Merge(unit_data, [last_seen_date |-> t, status |-> "available",
                                     batch_id |-> t])
    IN  IF "favorite" \in DOMAIN existing_data
        THEN Merge(stamped, [favorite |-> existing_data["favorite"]])
        ELSE stamped

\* lines 254-260: the update applied to an existing document
UpdateData(unit_data, existing_data, t) ==
    LET stamped == Merge(unit_data, [last_seen_date |-> t, status |-> "available"])
    IN  IF "favorite" \in DOMAIN existing_data
        THEN Merge(stamped, [favorite |-> existing_data["favorite"]])
        ELSE stamped

\* lines 264-277: the document created for a new unit
NewData(unit_data, doc_id, t, batch_id) ==
    LET new_data == Merge(unit_data, [id |-> S(doc_id), first_seen_date |-> t,
                                      last_seen_date |-> t, status |-> "available",
                                      batch_id |-> batch_id])
    IN  [k \in DOMAIN new_data \cup TrackingFields |->
            IF k \in DOMAIN new_data THEN new_data[k] ELSE S(<<>>)]

\* lines 239-246: the document id of a row whose address is text, at time t
RowDocId(row, t) ==
    _sanitize_unit_id(Strip(RowGet(row, "property_address").text),
                      Strip(Str(RowGet(row, "unit"))),
                      Strip(Str(RowGet(row, "zip_code"))), t)

\* line 239: row.get('property_address', '').strip() raises on a cell that is not text
AddressRaises(row) == RowGet(row, "property_address").kind # "str"

\* line 243: if not address or not zip_code
RowSkipped(address, zip_code) == address = <<>> \/ zip_code = <<>>

\* lines 238-283: one iteration of the loop; the outcome, the document id, the store.
\* rejected: the store raises on this row's get, update or set (lines 252-278),
\* and the except clause of line 280 goes on to the next row
UpsertRow(store, row, t, batch_id, rejected) ==
    IF AddressRaises(row) THEN [kind |-> "error", id |-> <<>>, store |-> store]
    ELSE
    LET address == Strip(RowGet(row, "property_address").text)
        unit_num == Strip(Str(RowGet(row, "unit")))
        zip_code == Strip(Str(RowGet(row, "zip_code")))
        doc_id == _sanitize_unit_id(address, unit_num, zip_code, t)
        unit_data == _parse_and_clean_data(row)
    IN  IF RowSkipped(address, zip_code) THEN [kind |-> "skipped", id |-> <<>>, store |-> store]
        ELSE IF rejected THEN [kind |-> "error", id |-> <<>>, store |-> store]
        ELSE IF doc_id \in DOMAIN store
        THEN [kind |-> "updated", id |-> doc_id,
              store |-> Put(store, doc_id, Merge(store[doc_id], UpdateData(unit_data, store[doc_id], t)))]
        ELSE [kind |-> "inserted", id |-> doc_id,
              store |-> Put(store, doc_id, NewData(unit_data, doc_id, t, batch_id))]

\* the loop left at the first row that raises: the counts so far are returned
RECURSIVE UploadRowsAbortOnError(_, _, _, _, _, _)
UploadRowsAbortOnError(store, df, i, t, acc, faults) ==
    IF i > Len(df) THEN [store |-> store, ins |-> acc.ins, upd |-> acc.upd, ids |-> acc.ids]
    ELSE LET r == UpsertRow(store, df[i], t, t, i \in faults)
         IN  IF r.kind = "error"
             THEN [store |-> store, ins |-> acc.ins, upd |-> acc.upd, ids |-> acc.ids]
             ELSE UploadRowsAbortOnError(r.store, df, i + 1, t,
                        [ins |-> acc.ins + (IF r.kind = "inserted" THEN 1 ELSE 0),
                         upd |-> acc.upd + (IF r.kind = "updated" THEN 1 ELSE 0),
                         ids |-> IF r.kind \in {"inserted", "updated"}
                                 THEN acc.ids \cup {r.id} ELSE acc.ids], faults)

\* lines 237-285: the loop over the rows from row i on; acc holds the counts so
\* far, faults the positions of the rows on which the store raises
RECURSIVE UploadRows(_, _, _, _, _, _)
UploadRows(store, df, i, t, acc, faults) ==
    IF i > Len(df) THEN [store |-> store, ins |-> acc.ins, upd |-> acc.upd, ids |-> acc.ids]
    ELSE LET r == UpsertRow(store, df[i], t, t, i \in faults)
         IN  UploadRows(r.store, df, i + 1, t,
                        [ins |-> acc.ins + (IF r.kind = "inserted" THEN 1 ELSE 0),
                         upd |-> acc.upd + (IF r.kind = "updated" THEN 1 ELSE 0),
                         ids |-> IF r.kind \in {"inserted", "updated"}
                                 THEN acc.ids \cup {r.id} ELSE acc.ids], faults)

\* upload_from_dataframe(df) at time t: the store after it and the returned counts
upload_from_dataframe(store, df, t, faults) ==
    UploadRows(store, df, 1, t, [ins |-> 0, upd |-> 0, ids |-> {}], faults)

\* update_unit(unit_id, data), lines 310-315, for a document that exists
update_unit(store, unit_id, data) ==
    IF DOMAIN data = {} THEN store ELSE Put(store, unit_id, Merge(store[unit_id], data))

\* update_favorite_status(unit_id, is_favorite), line 396
update_favorite_status(store, unit_id, is_favorite) ==
    Put(store, unit_id, Merge(store[unit_id], [favorite |-> is_favorite]))

\* lines 372-378: the fields reprocess_existing_data copies from the stored document
PreservedFields == {"id", "first_seen_date", "last_seen_date", "status", "batch_id"}

\* lines 365-381: one iteration of the loop of reprocess_existing_data; the
\* document stored afterwards.  The preserved fields and favorite hold text,
\* dates and flags, which the normalizer's default branch leaves as they are
\* (and line 219 then sets favorite to False).
ReprocessDoc(current_data) ==
    LET cells == [k \in DOMAIN current_data \ (PreservedFields \cup {"favorite"}) |->
                    current_data[k]]
        kept == [k \in DOMAIN current_data \cap PreservedFields |-> current_data[k]]
        parsed_data == Merge(Merge(CleanedFromRow(cells), kept), [favorite |-> FALSE])
    IN  IF parsed_data # current_data
        THEN Merge(parsed_data,
                   [k \in PreservedFields |->
                       IF k \in DOMAIN current_data THEN current_data[k]
                       ELSE IF k = "status" THEN "available"
                       ELSE None])
        ELSE current_data

\* reprocess_existing_data(), lines 353-391: the store afterwards; rejected are
\* the documents on whose set() the store raises (caught at line 384)
reprocess_existing_data(store, rejected) ==
    [d \in DOMAIN store |-> IF d \in rejected THEN store[d] ELSE ReprocessDoc(store[d])]

(***************************************************************************)
(* The failure log: collection 'geocoding_failures'.  A record carries the *)
(* id of its document next to the fields of the document.                  *)
(***************************************************************************)
\* an id the store generates for an added document: letters and digits, never
\* the decimal text of a table index
AutoId(n) == <<"A", Digits[n + 1]>>

\* collection.add(): the document gets an auto-generated id not in use
FreshAutoId(log) ==
    AutoId(CHOOSE n \in 0..Len(log) :
              /\ \A i \in DOMAIN log : log[i].doc_id # AutoId(n)
              /\ \A m \in 0..(n - 1) : \E i \in DOMAIN log : log[i].doc_id = AutoId(m))

\* log_geocoding_failure(unit_data, reason) at time t, lines 322-327
log_geocoding_failure(log, unit_data, reason, t) ==
    Append(log, [doc_id |-> FreshAutoId(log), unit_data |-> unit_data, reason |-> reason,
                 timestamp |-> t])

\* get_geocoding_failures_df(), lines 332-334: one row per document, made of
\* doc.to_dict(), which holds the fields and not the id
get_geocoding_failures_df(log) ==
    [i \in DOMAIN log |-> [unit_data |-> log[i].unit_data, reason |-> log[i].reason,
                           timestamp |-> log[i].timestamp]]

\* get_geocoding_failure_count(), line 344
get_geocoding_failure_count(log) == Len(log)

\* delete_geocoding_failure(failure_id), line 351: deleting a document that
\* does not exist changes nothing
delete_geocoding_failure(log, failure_id) ==
    LET Kept(record) == record.doc_id # failure_id
    IN  SelectSeq(log, Kept)

\* str(index) for the index of a table row
IndexText(n) == <<Digits[n + 1]>>

(***************************************************************************)
(* The rows offered to the upload: one normal unit, its case variant, a    *)
(* punctuation-only unit, and rows whose address or zip is missing.        *)
(***************************************************************************)
Addr1a == <<"1", " ", "a">>
Addr1A == <<"1", " ", "A">>
Punct == <<"#">>
Zip5 == <<"9", "0", "0", "0", "1">>
Http == <<"h", "t", "t", "p", ":", "x">>
Ftp == <<"f", "t", "p", ":", "x">>

Row(address, unit, zip, link, lat, fav) ==
    [property_address |-> address, unit |-> unit, zip_code |-> zip,
     listing_link |-> link, latitude |-> lat, favorite |-> fav]

RowNormal == Row(S(Addr1a), NaN, S(Zip5), S(Http), NaN, S(<<"T", "r", "u", "e">>))
RowCaseVariant == Row(S(Addr1A), NaN, S(Zip5), NaN, NaN, NaN)
RowPunct == Row(S(Punct), S(Punct), S(Punct), NaN, NaN, NaN)
RowAddressNaN == Row(NaN, NaN, S(Zip5), NaN, NaN, NaN)
RowAddressBlank == Row(S(<<" ">>), NaN, S(Zip5), NaN, NaN, NaN)
RowZipNaN == Row(S(Addr1a), NaN, NaN, NaN, NaN, NaN)
RowZipEmpty == Row(S(Addr1a), NaN, S(<<>>), NaN, NaN, NaN)

\* a second unit, with free-text amenities, utilities and subsidies
RowFeatures ==
    [property_address |-> S(<<"2", " ", "a">>), zip_code |-> S(Zip5),
     amenities |-> S(<<"p", "o", "o", "l">>),
     utilities |-> S(<<"w", "a", "t", "e", "r">>),
     subsidies |-> S(<<"h", "a", "c", "l", "a">>)]

UploadRowSet == {RowNormal, RowCaseVariant, RowPunct, RowAddressNaN, RowAddressBlank,
                 RowZipNaN, RowZipEmpty}

\* the DataFrames of 1..n rows over a set of rows
DataFrames(rows, n) == UNION {[1..k -> rows] : k \in 1..n}

StatusOptions == {"available", "favorite", "not_interested", "off_market"}

ZeroResults == [processed |-> 0, geocoding_failed |-> 0, scraping_failed |-> 0,
                processed_no_scrape |-> 0]
ZeroCalls == [geocode |-> 0, scrape |-> 0, writes |-> 0, progress |-> <<>>]

NoOp == [op |-> "init", df |-> <<>>, ins |-> 0, upd |-> 0, ids |-> {}, before |-> EmptyStore,
         seen |-> {}, faults |-> {}, t |-> 0]

(***************************************************************************)
(* Initial state: an empty store, no pass started.                         *)
(***************************************************************************)
InitStore ==
    /\ units = EmptyStore
    /\ failures = <<>>
    /\ now = 0
    /\ last = NoOp
    /\ seen = {}
    /\ rowsUploaded = 0
    /\ edits = 0

InitPass ==
    /\ passPc = "idle"
    /\ passDf = <<>>
    /\ selected = <<>>
    /\ batch = 0
    /\ workers = <<>>
    /\ results = ZeroResults
    /\ calls = ZeroCalls
    /\ failBase = 0
    /\ passes = 0

InitId ==
    /\ idArgs = <<<<>>, <<>>, <<>>>>
    /\ idCalls = <<>>

\* no normalizer call under study
NoRow == [c \in {} |-> NaN]
NotNormalized == [pending |-> TRUE]

InitNorm ==
    /\ normRow = NoRow
    /\ normOut = NotNormalized

\* clear_database has not been called
ClearIdle == [pc |-> "idle", todo |-> <<>>, pending |-> {}, count |-> 0, commits |-> <<>>]

InitClear == clear = ClearIdle

\* no upload is between its read and its write
UpsertIdle == [pc |-> "idle", row |-> NoRow, doc_id |-> <<>>, exists |-> FALSE,
               existing |-> NoRow]

InitRace == upsert = UpsertIdle

Init == InitStore /\ InitPass /\ InitId /\ InitNorm /\ InitClear /\ InitRace

(***************************************************************************)
(* Store operations.                                                       *)
(***************************************************************************)
\* the sets of row positions on which the store can raise during one upload
FaultSets(df, n) == {f \in SUBSET DOMAIN df : Cardinality(f) <= n}

\* pages/1_Upload_Data.py line 69: upload_from_dataframe(df); the store raises
\* on at most maxFaults of the rows
UploadOf(dfs, budget, maxFaults) ==
    \E df \in dfs :
        /\ rowsUploaded + Len(df) <= budget
        /\ \E faults \in FaultSets(df, maxFaults) :
            LET r == upload_from_dataframe(units, df, now, faults)
            IN  /\ units' = r.store
                /\ last' = [op |-> "upload", df |-> df, ins |-> r.ins, upd |-> r.upd,
                            ids |-> r.ids, before |-> units, seen |-> seen,
                            faults |-> faults, t |-> now]
                /\ seen' = seen \cup {df[i] : i \in DOMAIN df \ faults}
        /\ rowsUploaded' = rowsUploaded + Len(df)
        /\ UNCHANGED <<failures, now, edits>>

Upload ==
    /\ UploadOf(DataFrames(UploadRowSet, MaxRows), MaxTotalRows, MaxFaults)
    /\ UNCHANGED <<passVars, idVars, normVars, clearVars, raceVars>>

\* Home.py lines 284-287: the favorite toggle
UpdateFavorite ==
    /\ edits < MaxEdits
    /\ \E id \in DOMAIN units, v \in BOOLEAN :
        /\ units' = update_favorite_status(units, id, v)
        /\ last' = [op |-> "favorite", df |-> <<>>, ins |-> 0, upd |-> 0, ids |-> {id},
                    before |-> units, seen |-> seen, faults |-> {},
                    t |-> now]
    /\ edits' = edits + 1
    /\ UNCHANGED <<failures, now, seen, rowsUploaded, passVars, idVars, normVars, clearVars, raceVars>>

\* Home.py lines 262-277: Save Status
SaveStatus ==
    /\ edits < MaxEdits
    /\ \E id \in DOMAIN units, new_status \in StatusOptions :
        /\ units' = update_unit(units, id, [status |-> new_status])
        /\ last' = [op |-> "status", df |-> <<>>, ins |-> 0, upd |-> 0, ids |-> {id},
                    before |-> units, seen |-> seen, faults |-> {},
                    t |-> now]
    /\ edits' = edits + 1
    /\ UNCHANGED <<failures, now, seen, rowsUploaded, passVars, idVars, normVars, clearVars, raceVars>>

\* a second passes
Tick ==
    /\ now < MaxClock
    /\ now' = now + 1
    /\ UNCHANGED <<storeVars, passVars, idVars, normVars, clearVars, raceVars>>

(***************************************************************************)
(* The unit table handed to the pipeline: get_all_units_as_df.             *)
(***************************************************************************)
\* the documents of the store in the order the store streams them
RECURSIVE StreamOrder(_)
StreamOrder(ids) ==
    IF ids = {} THEN <<>>
    ELSE LET id == CHOOSE id \in ids : TRUE IN <<id>> \o StreamOrder(ids \ {id})

\* pd.DataFrame(units_list): one column per field of any document, NaN where a
\* document lacks the field
Columns(store) == UNION {DOMAIN store[d] : d \in DOMAIN store}

get_all_units_as_df(store) ==
    LET order == StreamOrder(DOMAIN store)
    IN  [i \in DOMAIN order |->
            [c \in Columns(store) |->
                IF c \in DOMAIN store[order[i]] THEN store[order[i]][c] ELSE NaN]]

\* unit_row.get(col): None when the table has no such column
SeriesGet(row, col) == IF col \in DOMAIN row THEN row[col] ELSE None

\* pd.isnull(value)
IsNull(v) == v.kind \in {"nan", "none"}

\* pd.to_numeric(value, errors='coerce') is null
ToNumericIsNull(v) == IsNull(v) \/ (v.kind = "str" /\ ~IsFloatText(v.text))

\* bool(value) for a cell: NaN is a float and is true, None and '' are false
Truthy(v) == v.kind # "none" /\ ~(v.kind = "str" /\ v.text = <<>>)

\* str.startswith(prefix)
StartsWith(s, prefix) == Len(s) >= Len(prefix) /\ SubSeq(s, 1, Len(prefix)) = prefix

(***************************************************************************)
(* HousingDataProcessor: _geocode_address, _scrape_listing_data,           *)
(* _process_unit, process_all_units.                                       *)
(***************************************************************************)
retries == 3

\* what one geocoder.geocode call can do: return a location, return None,
\* raise GeocoderTimedOut/GeocoderUnavailable, raise another geopy error
GeoOutcomes == {"location", "no_result", "timeout", "error"}

\* what the GET on the scrape service can do: answer with a status code, or
\* raise a timeout/connection error (status 0: there is no response)
ScrapeStatuses == {200, 404, 500, 0}

\* lines 39-43: the coordinates a location yields
Coords == [latitude |-> [kind |-> "float", text |-> <<"3", "4">>],
           longitude |-> [kind |-> "float", text |-> <<"-", "1", "1", "8">>],
           display_name |-> S(<<"L", "A">>)]

\* res.json() of a successful answer
ScrapedData(listing_url) ==
    [url |-> S(listing_url), availability |-> TRUE,
     rent |-> [kind |-> "int", text |-> <<"9", "5", "0">>]]

OffMarket == [status |-> "off_market"]

\* line 56: the request raises (timeout, connection error) and there is no response
NoResponse(status) == status = 0

\* line 57: res.raise_for_status() raises HTTPError for a 4xx or 5xx answer
RaisesForStatus(status) == status >= 400

\* bool(e.response): None is false, and a requests.Response is true only when
\* its status is below 400
ResponseTruthy(status) == ~NoResponse(status) /\ status < 400

\* line 61: hasattr(e, 'response') and e.response and e.response.status_code == 404
IsNotFound(status) == ResponseTruthy(status) /\ status = 404

\* lines 54-63: what _scrape_listing_data returns for an answer of the service:
\* "data", "off_market" or "none"
ScrapeReturn(status) ==
    IF ~NoResponse(status) /\ ~RaisesForStatus(status) THEN "data"
    ELSE IF IsNotFound(status) THEN "off_market"
    ELSE "none"

\* lines 141-148: the key of results a returned status is counted under
ResultKey(status) ==
    CASE status = "Processed" -> "processed"
      [] status = "Geocoding Failed" -> "geocoding_failed"
      [] status = "Scraping Failed" -> "scraping_failed"
      [] status = "Processed (No Scrape)" -> "processed_no_scrape"

\* the selection without the latitude filter
SelectedPositionsAll(df) == DOMAIN df

\* lines 113-119: the positions of units_df selected for processing
SelectedPositions(df) ==
    IF df # <<>> /\ "latitude" \in DOMAIN df[1]
    THEN {i \in DOMAIN df : ToNumericIsNull(df[i]["latitude"])}
    ELSE DOMAIN df

\* units_df[mask]: the rows at the given positions, in table order
RECURSIVE Filter(_, _, _)
Filter(df, keep, i) ==
    IF i > Len(df) THEN <<>>
    ELSE IF i \in keep THEN <<df[i]>> \o Filter(df, keep, i + 1)
    ELSE Filter(df, keep, i + 1)

units_to_process(df) == Filter(df, SelectedPositions(df), 1)

\* line 126
NumBatches(total_units) == (total_units + batch_size - 1) \div batch_size

\* line 130: the units of batch i
BatchUnits(i) == {u \in DOMAIN selected : (u - 1) \div batch_size = i}

UnitId(u) == SeriesGet(selected[u], "id").text
ListingUrl(u) == SeriesGet(selected[u], "listing_link")

Queued == [pc |-> "queued", attempt |-> 0, geo |-> "none", scr |-> "none",
           status |-> "", err |-> "none", collected |-> FALSE]

Running(w) == w.pc \notin {"queued", "done", "raised"}
Finished(w) == w.pc \in {"done", "raised"}

Done(w, status) == [w EXCEPT !.pc = "done", !.status = status]
Raised(w, cause) == [w EXCEPT !.pc = "raised", !.err = cause]

\* the step after the geocoding part without the scheme test of line 52: every
\* populated link is requested
AfterGeocodeAnyScheme(w, listing_url) ==
    IF ~Truthy(listing_url) THEN Done(w, "Processed (No Scrape)")
    ELSE IF listing_url.kind # "str" THEN Raised(w, "link")
    ELSE [w EXCEPT !.pc = "scrape"]

\* lines 97-108: the step after the geocoding part, up to the HTTP request
AfterGeocode(w, listing_url) ==
    IF ~Truthy(listing_url) THEN Done(w, "Processed (No Scrape)")
    ELSE IF listing_url.kind # "str" THEN Raised(w, "link")
    ELSE IF ~StartsWith(listing_url.text, <<"h", "t", "t", "p">>)
         THEN Done([w EXCEPT !.scr = "not_sent"], "Scraping Failed")
    ELSE [w EXCEPT !.pc = "scrape"]

\* process_all_units is called with the current unit table
StartPass ==
    /\ passes < MaxPasses
    /\ passPc \in {"idle", "returned", "raised"}
    /\ \A u \in DOMAIN workers : Finished(workers[u])
    /\ LET df == get_all_units_as_df(units)
           sel == units_to_process(df)
       IN  /\ passDf' = df
           /\ selected' = sel
           /\ workers' = [u \in DOMAIN sel |-> Queued]
           /\ passPc' = IF Len(sel) = 0 THEN "returned" ELSE "running"
    /\ batch' = 0
    /\ results' = ZeroResults
    /\ calls' = ZeroCalls
    /\ failBase' = Len(failures)
    /\ passes' = passes + 1
    /\ UNCHANGED <<storeVars, now, idVars, normVars, clearVars, raceVars>>

\* a pool thread takes a unit of any batch, submitted or not
StartWorkerAnyBatch(u) ==
    /\ u \in DOMAIN workers
    /\ workers[u].pc = "queued"
    /\ \A v \in 1..(u - 1) : workers[v].pc # "queued"
    /\ Cardinality({v \in DOMAIN workers : Running(workers[v])}) < max_workers
    /\ workers' = [workers EXCEPT ![u] =
                      IF IsNull(SeriesGet(selected[u], "latitude"))
                      THEN [@ EXCEPT !.pc = "geocode"]
                      ELSE AfterGeocode(@, ListingUrl(u))]
    /\ UNCHANGED <<storeVars, now, idVars, normVars, clearVars, raceVars, passPc, passDf, selected, batch, results,
                   calls, failBase, passes>>

\* a pool thread takes the next submitted unit (lines 65-83)
StartWorker(u) ==
    /\ u \in DOMAIN workers
    /\ workers[u].pc = "queued"
    /\ (u - 1) \div batch_size <= batch
    /\ \A v \in 1..(u - 1) : workers[v].pc # "queued"
    /\ Cardinality({v \in DOMAIN workers : Running(workers[v])}) < max_workers
    /\ workers' = [workers EXCEPT ![u] =
                      IF IsNull(SeriesGet(selected[u], "latitude"))
                      THEN [@ EXCEPT !.pc = "geocode"]
                      ELSE AfterGeocode(@, ListingUrl(u))]
    /\ UNCHANGED <<storeVars, now, idVars, normVars, clearVars, raceVars, passPc, passDf, selected, batch, results,
                   calls, failBase, passes>>

\* _geocode_address without the loop: the first attempt without a location ends it
GeocodeAttemptNoRetry(u) ==
    /\ u \in DOMAIN workers
    /\ workers[u].pc = "geocode"
    /\ \E outcome \in GeoOutcomes :
        workers' = [workers EXCEPT ![u] =
            IF outcome = "location" THEN [@ EXCEPT !.pc = "store_coords", !.geo = "located"]
            ELSE IF outcome = "error" THEN Raised(@, "geocoder")
            ELSE [@ EXCEPT !.pc = "log_failure", !.attempt = @ + 1, !.geo = "exhausted"]]
    /\ calls' = [calls EXCEPT !.geocode = @ + 1]
    /\ UNCHANGED <<storeVars, now, idVars, normVars, clearVars, raceVars, passPc, passDf, selected, batch, results,
                   failBase, passes>>

\* one attempt of _geocode_address (lines 35-48)
GeocodeAttempt(u) ==
    /\ u \in DOMAIN workers
    /\ workers[u].pc = "geocode"
    /\ \E outcome \in GeoOutcomes :
        workers' = [workers EXCEPT ![u] =
            IF outcome = "location" THEN [@ EXCEPT !.pc = "store_coords", !.geo = "located"]
            ELSE IF outcome = "error" THEN Raised(@, "geocoder")
            ELSE IF @.attempt + 1 = retries
                 THEN [@ EXCEPT !.pc = "log_failure", !.attempt = @ + 1, !.geo = "exhausted"]
                 ELSE [@ EXCEPT !.attempt = @ + 1]]
    /\ calls' = [calls EXCEPT !.geocode = @ + 1]
    /\ UNCHANGED <<storeVars, now, idVars, normVars, clearVars, raceVars, passPc, passDf, selected, batch, results,
                   failBase, passes>>

\* line 85: update_unit(unit_id, coords); the store accepts or rejects the write
StoreCoords(u) ==
    /\ u \in DOMAIN workers
    /\ workers[u].pc = "store_coords"
    /\ \/ /\ UnitId(u) \in DOMAIN units
          /\ units' = update_unit(units, UnitId(u), Coords)
          /\ workers' = [workers EXCEPT ![u] = AfterGeocode(@, ListingUrl(u))]
          /\ calls' = [calls EXCEPT !.writes = @ + 1]
       \/ /\ workers' = [workers EXCEPT ![u] = Raised(@, "store")]
          /\ UNCHANGED <<units, calls>>
    /\ UNCHANGED <<failures, last, seen, rowsUploaded, edits, now, idVars, normVars, clearVars, raceVars, passPc, passDf,
                   selected, batch, results, failBase, passes>>

\* the failure is logged but line 95 does not return: the unit goes on to scraping
LogFailureAndContinue(u) ==
    /\ u \in DOMAIN workers
    /\ workers[u].pc = "log_failure"
    /\ failures' = log_geocoding_failure(failures, selected[u], "Geocoding failed", now)
    /\ workers' = [workers EXCEPT ![u] = AfterGeocode(@, ListingUrl(u))]
    /\ calls' = [calls EXCEPT !.writes = @ + 1]
    /\ UNCHANGED <<units, last, seen, rowsUploaded, edits, now, idVars, normVars, clearVars, raceVars, passPc, passDf,
                   selected, batch, results, failBase, passes>>

\* lines 87-95 and log_geocoding_failure (firestore_service.py lines 320-327)
LogFailure(u) ==
    /\ u \in DOMAIN workers
    /\ workers[u].pc = "log_failure"
    /\ failures' = log_geocoding_failure(failures, selected[u], "Geocoding failed", now)
    /\ workers' = [workers EXCEPT ![u] = Done(@, "Geocoding Failed")]
    /\ calls' = [calls EXCEPT !.writes = @ + 1]
    /\ UNCHANGED <<units, last, seen, rowsUploaded, edits, now, idVars, normVars, clearVars, raceVars, passPc, passDf,
                   selected, batch, results, failBase, passes>>

\* the HTTP request, with a failed request recorded on the unit
ScrapeMarksFailure(u) ==
    /\ u \in DOMAIN workers
    /\ workers[u].pc = "scrape"
    /\ \E status \in ScrapeStatuses :
        LET w == [workers[u] EXCEPT !.scr = IF status = 200 THEN "ok"
                                             ELSE IF status = 404 THEN "http404"
                                             ELSE IF status = 0 THEN "no_response"
                                             ELSE "http_error"]
        IN  IF ScrapeReturn(status) = "data"
            THEN workers' = [workers EXCEPT ![u] = [w EXCEPT !.pc = "store_scrape"]]
                 /\ units' = units
            ELSE IF ScrapeReturn(status) = "off_market"
            THEN workers' = [workers EXCEPT ![u] = [w EXCEPT !.pc = "store_off_market"]]
                 /\ units' = units
            ELSE workers' = [workers EXCEPT ![u] = Done(w, "Scraping Failed")]
                 /\ units' = update_unit(units, UnitId(u), [scrape_error |-> S(Http)])
    /\ calls' = [calls EXCEPT !.scrape = @ + 1]
    /\ UNCHANGED <<failures, last, seen, rowsUploaded, edits, now, idVars, normVars, clearVars, raceVars,
                   passPc, passDf, selected, batch, results, failBase, passes>>

\* the HTTP request of _scrape_listing_data (lines 54-63) and lines 100-106
Scrape(u) ==
    /\ u \in DOMAIN workers
    /\ workers[u].pc = "scrape"
    /\ \E status \in ScrapeStatuses :
        workers' = [workers EXCEPT ![u] =
            LET w == [@ EXCEPT !.scr = IF status = 200 THEN "ok"
                                       ELSE IF status = 404 THEN "http404"
                                       ELSE IF status = 0 THEN "no_response"
                                       ELSE "http_error"]
            IN  IF ScrapeReturn(status) = "data" THEN [w EXCEPT !.pc = "store_scrape"]
                ELSE IF ScrapeReturn(status) = "off_market" THEN [w EXCEPT !.pc = "store_off_market"]
                ELSE Done(w, "Scraping Failed")]
    /\ calls' = [calls EXCEPT !.scrape = @ + 1]
    /\ UNCHANGED <<storeVars, now, idVars, normVars, clearVars, raceVars, passPc, passDf, selected, batch, results,
                   failBase, passes>>

\* lines 101-105: update_unit with the scraped data or the off-market status
StoreScrape(u) ==
    /\ u \in DOMAIN workers
    /\ workers[u].pc \in {"store_scrape", "store_off_market"}
    /\ \/ /\ UnitId(u) \in DOMAIN units
          /\ units' = update_unit(units, UnitId(u),
                                  IF workers[u].pc = "store_off_market" THEN OffMarket
                                  ELSE ScrapedData(ListingUrl(u).text))
          /\ workers' = [workers EXCEPT ![u] = Done(@, "Processed")]
          /\ calls' = [calls EXCEPT !.writes = @ + 1]
       \/ /\ workers' = [workers EXCEPT ![u] = Raised(@, "store")]
          /\ UNCHANGED <<units, calls>>
    /\ UNCHANGED <<failures, last, seen, rowsUploaded, edits, now, idVars, normVars, clearVars, raceVars, passPc, passDf,
                   selected, batch, results, failBase, passes>>

\* lines 139-151: the main thread takes a completed future of the current batch;
\* after the last one it reports progress and goes to the next batch or returns
Collect(u) ==
    /\ passPc = "running"
    /\ u \in BatchUnits(batch)
    /\ Finished(workers[u])
    /\ ~workers[u].collected
    /\ workers' = [workers EXCEPT ![u].collected = TRUE]
    /\ IF workers[u].pc = "raised"
       THEN /\ passPc' = "raised"
            /\ UNCHANGED <<results, batch>>
       ELSE /\ results' = [results EXCEPT ![ResultKey(workers[u].status)] = @ + 1]
            /\ IF \A v \in BatchUnits(batch) \ {u} : workers[v].collected
               THEN IF batch + 1 < NumBatches(Len(selected))
                    THEN batch' = batch + 1 /\ passPc' = passPc
                    ELSE batch' = batch /\ passPc' = "returned"
               ELSE UNCHANGED <<batch, passPc>>
    /\ calls' = IF workers[u].pc # "raised" /\ \A v \in BatchUnits(batch) \ {u} : workers[v].collected
                THEN [calls EXCEPT !.progress =
                         Append(@, <<batch + 1, NumBatches(Len(selected))>>)]
                ELSE calls
    /\ UNCHANGED <<storeVars, now, idVars, normVars, clearVars, raceVars, passDf, selected, failBase, passes>>

(***************************************************************************)
(* The rows that seed the store before a pass: distinct units, with or     *)
(* without a listing link, with no, a numeric or a non-numeric latitude.   *)
(***************************************************************************)
PassAddress(i) == <<Digits[i + 1], " ", "a">>

PassPayloads == {[link |-> S(Http), lat |-> NaN],
                 [link |-> NaN, lat |-> NaN],
                 [link |-> S(Http), lat |-> S(<<"3", "4">>)],
                 [link |-> S(Ftp), lat |-> S(<<"a", "b", "c">>)]}

PassDfs ==
    UNION {{[i \in 1..k |-> Row(S(PassAddress(i)), NaN, S(Zip5), p[i].link, p[i].lat, NaN)] :
                p \in [1..k -> PassPayloads]} : k \in 1..MaxPassUnits}

SeedUpload ==
    /\ units = EmptyStore
    /\ passPc = "idle"
    /\ UploadOf(PassDfs, MaxPassUnits, 0)
    /\ UNCHANGED <<passVars, idVars, normVars, clearVars, raceVars>>

(***************************************************************************)
(* Maintenance: the Geocoding Failures page and clear_database.            *)
(***************************************************************************)
\* the unit tables that fill the store before maintenance: 1..n plain units
MaintDfs ==
    {[i \in 1..k |-> Row(S(PassAddress(i)), NaN, S(Zip5), NaN, NaN, NaN)] : k \in 1..MaxClearUnits}

\* the store is filled by one upload
SeedUnits ==
    /\ units = EmptyStore
    /\ failures = <<>>
    /\ clear.pc = "idle"
    /\ UploadOf(MaintDfs, MaxClearUnits, 0)
    /\ UNCHANGED <<passVars, idVars, normVars, clearVars, raceVars>>

\* the pipeline logs a geocoding failure for a stored unit (Home.py line 94)
LogGeocodingFailure ==
    /\ clear.pc = "idle"
    /\ edits = 0
    /\ Len(failures) < MaxClearFailures
    /\ \E i \in DOMAIN get_all_units_as_df(units) :
        failures' = log_geocoding_failure(failures, get_all_units_as_df(units)[i],
                                          "Geocoding failed", now)
    /\ UNCHANGED <<units, now, last, seen, rowsUploaded, edits, passVars, idVars, normVars,
                   clearVars, raceVars>>

\* pages/3_Geocoding_Failures.py line 53: row.get('failure_id') or index, for
\* row i of the table (index i - 1)
FailureIdOf(df, i) ==
    IF "failure_id" \in DOMAIN df[i] /\ Truthy(df[i]["failure_id"])
    THEN Str(df[i]["failure_id"])
    ELSE IndexText(i - 1)

\* pages/3_Geocoding_Failures.py lines 31-58: Mark as Resolved on a listed record
MarkResolved ==
    /\ clear.pc = "idle"
    /\ edits < MaxEdits
    /\ LET failures_df == get_geocoding_failures_df(failures)
       IN  \E i \in DOMAIN failures_df :
            /\ failures' = delete_geocoding_failure(failures, FailureIdOf(failures_df, i))
            /\ last' = [op |-> "resolve", df |-> failures_df, ins |-> 0, upd |-> 0,
                        ids |-> {i}, before |-> failures, seen |-> seen, faults |-> {},
                        t |-> now]
    /\ edits' = edits + 1
    /\ UNCHANGED <<units, now, seen, rowsUploaded, passVars, idVars, normVars, clearVars, raceVars>>

\* batch.commit() of the deletions of the documents ids: the store without them
WithoutUnits(store, ids) == [d \in DOMAIN store \ ids |-> store[d]]

WithoutFailures(log, ids) ==
    LET Kept(record) == record.doc_id \notin ids
    IN  SelectSeq(log, Kept)

\* the ids of the documents a stream of the failure log yields
RECURSIVE FailureIds(_)
FailureIds(log) == IF log = <<>> THEN <<>> ELSE <<Head(log).doc_id>> \o FailureIds(Tail(log))

\* clear_database lines 418-422: the stream of units, an empty batch, count = 0
ClearStart ==
    /\ clear.pc = "idle"
    /\ clear' = [pc |-> "units", todo |-> StreamOrder(DOMAIN units), pending |-> {},
                 count |-> 0, commits |-> <<>>]
    /\ UNCHANGED <<storeVars, now, passVars, idVars, normVars, raceVars>>

\* lines 424-431: one iteration of the loop over the units
ClearDeleteUnit ==
    /\ clear.pc = "units"
    /\ clear.todo # <<>>
    /\ LET pending == clear.pending \cup {Head(clear.todo)}
           count == clear.count + 1
       IN  IF count % MutationLimit = 0
           THEN /\ units' = WithoutUnits(units, pending)
                /\ clear' = [clear EXCEPT !.todo = Tail(@), !.pending = {}, !.count = count,
                                          !.commits = Append(@, [collection |-> "units",
                                                                 size |-> Cardinality(pending)])]
           ELSE /\ units' = units
                /\ clear' = [clear EXCEPT !.todo = Tail(@), !.pending = pending,
                                          !.count = count]
    /\ UNCHANGED <<failures, last, seen, rowsUploaded, edits, now, passVars, idVars, normVars, raceVars>>

\* lines 433-439: the remaining deletions are committed, then the stream of
\* failure records and a new batch
ClearCommitUnits ==
    /\ clear.pc = "units"
    /\ clear.todo = <<>>
    /\ units' = IF clear.count % MutationLimit # 0 THEN WithoutUnits(units, clear.pending)
                ELSE units
    /\ clear' = [clear EXCEPT !.pc = "failures", !.todo = FailureIds(failures),
                              !.pending = {},
                              !.commits = IF clear.count % MutationLimit # 0
                                          THEN Append(@, [collection |-> "units",
                                                          size |-> Cardinality(clear.pending)])
                                          ELSE @]
    /\ UNCHANGED <<failures, last, seen, rowsUploaded, edits, now, passVars, idVars, normVars, raceVars>>

\* lines 441-442: one iteration of the loop over the failure records
ClearDeleteFailure ==
    /\ clear.pc = "failures"
    /\ clear.todo # <<>>
    /\ clear' = [clear EXCEPT !.todo = Tail(@), !.pending = @ \cup {Head(clear.todo)}]
    /\ UNCHANGED <<storeVars, now, passVars, idVars, normVars, raceVars>>

\* lines 444-449: the one commit of all failure deletions.  A batch above the
\* store's limit is rejected by a store that enforces the limit (the except
\* clause returns False) and applied by one that does not
ClearCommitFailures ==
    /\ clear.pc = "failures"
    /\ clear.todo = <<>>
    /\ \/ /\ failures' = WithoutFailures(failures, clear.pending)
          /\ clear' = [clear EXCEPT !.pc = "done", !.pending = {},
                                    !.commits = Append(@, [collection |-> "geocoding_failures",
                                                           size |-> Cardinality(clear.pending)])]
       \/ /\ Cardinality(clear.pending) > MutationLimit
          /\ failures' = failures
          /\ clear' = [clear EXCEPT !.pc = "failed",
                                    !.commits = Append(@, [collection |-> "geocoding_failures",
                                                           size |-> Cardinality(clear.pending)])]
    /\ UNCHANGED <<units, last, seen, rowsUploaded, edits, now, passVars, idVars, normVars, raceVars>>

(***************************************************************************)
(* Specifications.                                                         *)
(***************************************************************************)
\* the store under uploads and user edits
Next == Upload \/ UpdateFavorite \/ SaveStatus \/ Tick

Spec == Init /\ [][Next]_vars

\* Home.py line 85: the pipeline stores the coordinates of a unit without them
WriteCoords ==
    /\ \E id \in DOMAIN units :
        /\ "latitude" \notin DOMAIN units[id]
        /\ units' = update_unit(units, id, Coords)
        /\ last' = [op |-> "coords", df |-> <<>>, ins |-> 0, upd |-> 0, ids |-> {id},
                    before |-> units, seen |-> seen, faults |-> {}, t |-> now]
    /\ UNCHANGED <<failures, now, seen, rowsUploaded, edits, passVars, idVars, normVars, clearVars, raceVars>>

\* reprocess_existing_data() is called; the store rejects at most MaxFaults writes
Reprocess ==
    /\ units # EmptyStore
    /\ \E rejected \in {f \in SUBSET DOMAIN units : Cardinality(f) <= MaxFaults} :
        /\ units' = reprocess_existing_data(units, rejected)
        /\ last' = [op |-> "reprocess", df |-> <<>>, ins |-> 0, upd |-> 0,
                    ids |-> DOMAIN units \ rejected, before |-> units, seen |-> seen,
                    faults |-> {}, t |-> now]
    /\ UNCHANGED <<failures, now, seen, rowsUploaded, edits, passVars, idVars, normVars, clearVars, raceVars>>

\* the store is filled by one upload before reprocessing
ReprocessSeed ==
    /\ units = EmptyStore
    /\ UploadOf(DataFrames({RowNormal, RowFeatures}, MaxReprocessUnits), MaxReprocessUnits, 0)
    /\ UNCHANGED <<passVars, idVars, normVars, clearVars, raceVars>>

\* the tables uploaded to insert and refresh units
RefreshUpload ==
    /\ UploadOf(DataFrames({RowNormal, RowCaseVariant, RowFeatures}, MaxRows),
                MaxRefreshRows, MaxFaults)
    /\ UNCHANGED <<passVars, idVars, normVars, clearVars, raceVars>>

(***************************************************************************)
(* The upload of a one-row table as the two store calls it makes, so that  *)
(* another session's write can fall between them.                          *)
(***************************************************************************)
\* lines 238-252: the row is read, its id derived, and the document fetched;
\* doc.exists and doc.to_dict() are those of this moment
UpsertRead ==
    /\ upsert.pc \in {"idle", "done"}
    /\ rowsUploaded < MaxRaceRows
    /\ \E row \in {RowNormal, RowCaseVariant} :
        LET doc_id == RowDocId(row, now)
        IN  upsert' = [pc |-> "write", row |-> row, doc_id |-> doc_id,
                       exists |-> doc_id \in DOMAIN units,
                       existing |-> IF doc_id \in DOMAIN units THEN units[doc_id] ELSE NoRow]
    /\ rowsUploaded' = rowsUploaded + 1
    /\ UNCHANGED <<units, failures, last, seen, edits, now, passVars, idVars, normVars,
                   clearVars>>

\* lines 253-279: update(update_data) for a document that existed at the read,
\* set(new_data) otherwise
UpsertWrite ==
    /\ upsert.pc = "write"
    /\ LET unit_data == _parse_and_clean_data(upsert.row)
           doc_id == upsert.doc_id
       IN  /\ units' = IF upsert.exists
                       THEN Put(units, doc_id,
                                Merge(units[doc_id], UpdateData(unit_data, upsert.existing, now)))
                       ELSE Put(units, doc_id, NewData(unit_data, doc_id, now, now))
           /\ last' = [op |-> "upload", df |-> <<upsert.row>>,
                       ins |-> IF upsert.exists THEN 0 ELSE 1,
                       upd |-> IF upsert.exists THEN 1 ELSE 0,
                       ids |-> {doc_id}, before |-> units, seen |-> seen, faults |-> {},
                       t |-> now]
    /\ seen' = seen \cup {upsert.row}
    /\ upsert' = [upsert EXCEPT !.pc = "done"]
    /\ UNCHANGED <<failures, rowsUploaded, edits, now, passVars, idVars, normVars, clearVars>>

\* uploads that refresh stored units, the pipeline's coordinate writes and the
\* user's edits
NextRefresh ==
    \/ RefreshUpload
    \/ WriteCoords
    \/ UpdateFavorite
    \/ SaveStatus
    \/ Tick

SpecRefresh == Init /\ [][NextRefresh]_vars

\* one-row uploads in two steps each, with the user's edits between them
NextRace ==
    \/ UpsertRead
    \/ UpsertWrite
    \/ UpdateFavorite
    \/ SaveStatus
    \/ Tick

SpecRace == Init /\ [][NextRace]_vars

\* reprocessing of a store filled by one upload, with the user's favorite
\* toggle and the pipeline's coordinate writes
NextReprocess ==
    \/ ReprocessSeed
    \/ UpdateFavorite
    \/ WriteCoords
    \/ Reprocess

SpecReprocess == Init /\ [][NextReprocess]_vars

\* a pass of the pipeline over a store filled by one upload
NextPass ==
    \/ SeedUpload
    \/ StartPass
    \/ \E u \in 1..MaxPassUnits :
        \/ StartWorker(u)
        \/ GeocodeAttempt(u)
        \/ StoreCoords(u)
        \/ LogFailure(u)
        \/ Scrape(u)
        \/ StoreScrape(u)
        \/ Collect(u)

SpecPass == Init /\ [][NextPass]_vars

\* the pool's threads run the units they took to the end, and the main thread,
\* blocked in as_completed (Home.py line 139), takes every completed future
PassFairness ==
    \A u \in 1..MaxPassUnits :
        /\ WF_vars(StartWorker(u) \/ GeocodeAttempt(u) \/ StoreCoords(u) \/ LogFailure(u)
                      \/ Scrape(u) \/ StoreScrape(u))
        /\ WF_vars(Collect(u))

SpecPassFair == SpecPass /\ PassFairness

\* the maintenance operations over a store filled by one upload
NextMaint ==
    \/ SeedUnits
    \/ LogGeocodingFailure
    \/ MarkResolved
    \/ ClearStart
    \/ ClearDeleteUnit
    \/ ClearCommitUnits
    \/ ClearDeleteFailure
    \/ ClearCommitFailures
    \/ Tick

SpecMaint == Init /\ [][NextMaint]_vars

(***************************************************************************)
(* The identity deriver on its own: one argument triple, called at         *)
(* different times, with the letter case of address and unit changed, and  *)
(* with another address.                                                   *)
(***************************************************************************)
IdAlphabet == {"a", "A", " ", "-", "#"}
ZipSamples == {<<>>, <<"9">>, <<"#">>}

Texts(n) == UNION {[1..k -> IdAlphabet] : k \in 0..n}

\* s and r differ at most in letter case
SameButCase(s, r) == Len(s) = Len(r) /\ \A i \in DOMAIN s : LowerChar(s[i]) = LowerChar(r[i])

InitIdCalls ==
    /\ InitStore
    /\ InitPass
    /\ InitNorm
    /\ InitClear
    /\ InitRace
    /\ idArgs \in Texts(MaxAddrLen) \X Texts(MaxUnitLen) \X ZipSamples
    /\ idCalls = <<>>

\* _sanitize_unit_id(address, unit, zip) is called now
Derive ==
    /\ Len(idCalls) < MaxIdCalls
    /\ idCalls' = Append(idCalls, [args |-> idArgs, t |-> now,
                                   id |-> _sanitize_unit_id(idArgs[1], idArgs[2], idArgs[3], now)])
    /\ UNCHANGED <<idArgs, storeVars, now, passVars, normVars, clearVars, raceVars>>

\* the same call with the letter case of address and unit changed
DeriveOtherCase ==
    /\ Len(idCalls) < MaxIdCalls
    /\ \E address \in Texts(MaxAddrLen), unit \in Texts(MaxUnitLen) :
        /\ SameButCase(address, idArgs[1])
        /\ SameButCase(unit, idArgs[2])
        /\ <<address, unit>> # <<idArgs[1], idArgs[2]>>
        /\ idCalls' = Append(idCalls, [args |-> <<address, unit, idArgs[3]>>, t |-> now,
                                       id |-> _sanitize_unit_id(address, unit, idArgs[3], now)])
    /\ UNCHANGED <<idArgs, storeVars, now, passVars, normVars, clearVars, raceVars>>

\* other addresses near an address: hyphens written for its spaces, its '#'
\* characters left out, a letter added
OtherAddresses(address) ==
    LET NotHash(c) == c # "#"
    IN  {a \in {ReplaceSpace(address), SelectSeq(address, NotHash), address \o <<"a">>} :
            Len(a) <= MaxAddrLen /\ ~SameButCase(a, address)}

\* the call for another unit: the address differs in more than letter case
DeriveOtherAddress ==
    /\ Len(idCalls) < MaxIdCalls
    /\ \E address \in OtherAddresses(idArgs[1]) :
        /\ idCalls' = Append(idCalls, [args |-> <<address, idArgs[2], idArgs[3]>>, t |-> now,
                                       id |-> _sanitize_unit_id(address, idArgs[2], idArgs[3], now)])
    /\ UNCHANGED <<idArgs, storeVars, now, passVars, normVars, clearVars, raceVars>>

NextId == Derive \/ DeriveOtherCase \/ DeriveOtherAddress \/ Tick

SpecId == InitIdCalls /\ [][NextId]_vars

(***************************************************************************)
(* The normalizer on its own: one row, normalized and uploaded.  The rows  *)
(* vary the zip cell, the parking cell, or the amenities and utilities     *)
(* cells.                                                                  *)
(***************************************************************************)
NormRow(zip, parking, amenities, utilities) ==
    [property_address |-> S(Addr1a), unit |-> NaN, zip_code |-> zip, parking |-> parking,
     amenities |-> amenities, utilities |-> utilities]

ZipAlphabet == {"9", "0", "-", "a"}

\* the zip cells: every text over the alphabet, texts with blanks and a +4
\* suffix, a numeric cell of an integer and of a float column, an empty cell
ZipCells ==
    {S(z) : z \in UNION {[1..k -> ZipAlphabet] : k \in 1..MaxZipLen}}
        \cup {S(<<"9", "0", "0", "0", "1", "-", "1", "2", "3", "4">>),
             S(<<"a", "b", "c">>),
             S(<<" ", "9", "0", "0", "0", "1">>),
             S(<<"9", "0", "0", "0", "1", " ">>),
             S(<<"9", "0", "0", "0", "1", " ", "-", "1", "2", "3", "4">>),
             S(<<"9", " ", "0", "0", "0", "1">>)}
        \cup {[kind |-> "int", text |-> Zip5], [kind |-> "float", text |-> Zip5], NaN}

ParkingWords == {<<"N", "o", " ", "P", "a", "r", "k", "i", "n", "g">>,
                 <<"n", "o", "n", "e">>,
                 <<"n", "/", "a">>,
                 <<"N", "o", "t", " ", "A", "v", "a", "i", "l", "a", "b", "l", "e">>,
                 <<"2">>,
                 <<"2", ".", "5">>,
                 <<"0">>,
                 <<" ", "s", "p", "a", "c", "e", "s">>,
                 <<"g", "a", "r", "a", "g", "e">>,
                 <<"S", "t", "u", "d", "i", "o">>,
                 <<".">>}

\* the texts made of 1..n parking words
RECURSIVE Phrases(_)
Phrases(n) ==
    IF n = 0 THEN {<<>>}
    ELSE Phrases(n - 1) \cup {p \o w : p \in Phrases(n - 1), w \in ParkingWords}

ParkingCells ==
    {S(p) : p \in Phrases(MaxParkingWords) \ {<<>>}}
        \cup {[kind |-> "int", text |-> <<"2">>], [kind |-> "float", text |-> <<"2">>]}

AmenityCells == {NaN,
                 S(<<"P", "o", "o", "l", ",", " ", "G", "y", "m">>),
                 S(<<"d", "o", "g", " ", "p", "a", "r", "k", " ", "a", "n", "d", " ", "h", "o", "t", "-", "t", "u", "b">>),
                 S(<<"x", "y", "z">>)}

UtilityCells == {NaN,
                 S(<<"w", "a", "t", "e", "r", " ", "i", "n", "c", "l", "u", "d", "e", "d">>),
                 S(<<"g", "a", "s">>),
                 S(<<"t", "e", "n", "a", "n", "t", " ", "p", "a", "y", "s", " ", "e", "l", "e", "c", "t", "r", "i", "c", "i", "t", "y">>),
                 S(<<"x", "y", "z">>)}

NormRows ==
    {NormRow(z, NaN, NaN, NaN) : z \in ZipCells}
        \cup {NormRow(S(Zip5), pk, NaN, NaN) : pk \in ParkingCells}
        \cup {NormRow(S(Zip5), NaN, a, u) : a \in AmenityCells, u \in UtilityCells}

InitNormRows ==
    /\ InitStore
    /\ InitPass
    /\ InitId
    /\ InitClear
    /\ InitRace
    /\ normRow \in NormRows
    /\ normOut = NotNormalized

\* _parse_and_clean_data(row_data)
Normalize ==
    /\ normRow # NoRow
    /\ normOut = NotNormalized
    /\ normOut' = _parse_and_clean_data(normRow)
    /\ UNCHANGED <<normRow, storeVars, now, passVars, idVars, clearVars, raceVars>>

\* upload_from_dataframe of the one-row table
UploadNormRow ==
    /\ normRow # NoRow
    /\ UploadOf({<<normRow>>}, MaxNormUploads, 0)
    /\ UNCHANGED <<passVars, idVars, normVars, clearVars, raceVars>>

NextNorm == Normalize \/ UploadNormRow

SpecNorm == InitNormRows /\ [][NextNorm]_vars

(***************************************************************************)
(* Properties of the upsert engine (specification Spec).                   *)
(***************************************************************************)
\* the cell holds no value: NaN, None, or text that is empty once stripped
IsMissing(cell) == cell.kind \in {"nan", "none"} \/ Strip(Str(cell)) = <<>>

HasAddressAndZip(row) == ~IsMissing(row["property_address"]) /\ ~IsMissing(row["zip_code"])

\* the identity text of a row, before any fallback
RowIdText(row) ==
    SanitizedText(Strip(Str(row["property_address"])), Strip(Str(row["unit"])),
                  Strip(Str(row["zip_code"])))

StableIdentity(row) == Len(RowIdText(row)) >= MinIdLen

\* the identity fields of a record, the address in lower case
IdentityOf(doc) ==
    [k \in DOMAIN doc \cap {"property_address", "unit", "zip_code"} |->
        IF k = "property_address" THEN [i \in DOMAIN doc[k].text |-> LowerChar(doc[k].text[i])]
        ELSE doc[k]]

\* the stored records of the unit a row describes
RecordsOf(row, store) ==
    {id \in DOMAIN store : IdentityOf(store[id]) = IdentityOf(_parse_and_clean_data(row))}

\* an upload of one row during which the store raised nothing
SingleRowUpload == last.op = "upload" /\ Len(last.df) = 1 /\ last.faults = {}

\* C1 as stated: for any row with an address and a zip, the first upload of the
\* row inserts it (1, 0), an upload of a row uploaded before updates it (0, 1),
\* and exactly one record of the unit is stored.
C1_AnyRowIdempotent ==
    (SingleRowUpload /\ HasAddressAndZip(last.df[1])) =>
        /\ RecordsOf(last.df[1], last.before) = {} => (last.ins = 1 /\ last.upd = 0)
        /\ last.df[1] \in last.seen => (last.ins = 0 /\ last.upd = 1)
        /\ Cardinality(RecordsOf(last.df[1], units)) = 1

\* C1 amended: for any row with an address and a zip whose sanitized identity
\* text has at least 3 characters, the first upload inserts it (1, 0), an upload
\* of a row uploaded before updates it (0, 1), and exactly one record of the
\* unit is stored.
C1_UpsertIdempotent ==
    (SingleRowUpload /\ HasAddressAndZip(last.df[1]) /\ StableIdentity(last.df[1])) =>
        /\ RecordsOf(last.df[1], last.before) = {} => (last.ins = 1 /\ last.upd = 0)
        /\ last.df[1] \in last.seen => (last.ins = 0 /\ last.upd = 1)
        /\ Cardinality(RecordsOf(last.df[1], units)) = 1
        /\ Cardinality(DOMAIN units) = Cardinality(DOMAIN last.before) + last.ins

\* C1 witness: a row uploaded at second 0 is uploaded again at a later second
\* and is updated
C1_Witness ==
    /\ SingleRowUpload
    /\ HasAddressAndZip(last.df[1])
    /\ StableIdentity(last.df[1])
    /\ last.df[1] \in last.seen
    /\ now > 0
    /\ \E id \in last.ids : units[id]["first_seen_date"] = 0
    /\ last.upd = 1

\* C2: an upload never changes the favorite value of a unit that existed before
\* it and that one of its rows refreshed.
C2_FavoriteKept ==
    last.op = "upload" =>
        \A id \in last.ids \cap DOMAIN last.before :
            units[id]["favorite"] = last.before[id]["favorite"]

\* C2 witness: a unit marked favorite is refreshed by a row that carries a
\* favorite column of its own
C2_Witness ==
    /\ last.op = "upload"
    /\ last.upd > 0
    /\ \E i \in DOMAIN last.df : ~IsMissing(last.df[i]["favorite"])
    /\ \E id \in last.ids \cap DOMAIN last.before :
        last.before[id]["favorite"] = TRUE /\ units[id]["favorite"] = TRUE

\* C9: after an upload, every unit it inserted or updated has status available.
C9_StatusAvailable ==
    last.op = "upload" => \A id \in last.ids : units[id]["status"] = "available"

\* C9 witness: the upload refreshed a unit whose status was off_market
C9_Witness ==
    /\ last.op = "upload"
    /\ \E id \in last.ids \cap DOMAIN last.before :
        last.before[id]["status"] = "off_market" /\ units[id]["status"] = "available"

\* C10 as stated: an upload whose rows all lack the address or the zip creates
\* and modifies no record and counts nothing.
C10_MissingIdentitySkipped ==
    (last.op = "upload" /\ \A i \in DOMAIN last.df : ~HasAddressAndZip(last.df[i])) =>
        (units = last.before /\ last.ins = 0 /\ last.upd = 0)

\* the row reaches the store: its address is text and neither address nor zip
\* text is empty
ReachesStore(row) ==
    /\ ~AddressRaises(row)
    /\ ~RowSkipped(Strip(RowGet(row, "property_address").text),
                   Strip(Str(RowGet(row, "zip_code"))))

\* the rows of the last upload that reached the store and were not rejected by it
WrittenRows == {j \in DOMAIN last.df : ReachesStore(last.df[j]) /\ j \notin last.faults}

\* C11: when rows of an upload raise (the store rejects them, or the row is
\* malformed), every other row that reaches the store is still written, the
\* counts returned are exactly those of the rows written, and records that no
\* written row names are left as they were.
C11_BadRowDoesNotAbort ==
    last.op = "upload" =>
        /\ \A j \in WrittenRows : RecordsOf(last.df[j], units) # {}
        /\ last.ins + last.upd = Cardinality(WrittenRows)
        /\ Cardinality(DOMAIN units) = Cardinality(DOMAIN last.before) + last.ins
        /\ \A id \in DOMAIN last.before \ last.ids : units[id] = last.before[id]

\* C11 witness: the store rejected the first row of an upload, or the first row
\* was malformed, and the second row was inserted
C11_Witness ==
    /\ last.op = "upload"
    /\ Len(last.df) = 2
    /\ (1 \in last.faults /\ ReachesStore(last.df[1])) \/ AddressRaises(last.df[1])
    /\ WrittenRows = {2}
    /\ last.ins = 1
    /\ RecordsOf(last.df[2], units) # {}
    /\ RecordsOf(last.df[2], last.before) = {}

(***************************************************************************)
(* Properties of the refresh (specification SpecRefresh).                  *)
(***************************************************************************)
\* the units the last upload refreshed and the units it inserted
Refreshed == last.ids \cap DOMAIN last.before
Inserted == last.ids \ DOMAIN last.before

\* the fields the rows of the last upload supply for unit id
SuppliedFields(id) ==
    UNION {DOMAIN CleanedFromRow(last.df[j]) :
              j \in {i \in WrittenRows : RowDocId(last.df[i], last.t) = id}}

\* the refresh of unit id left the stored fields in keep as they were
FieldsKept(id, keep) ==
    \A k \in keep : k \in DOMAIN units[id] /\ units[id][k] = last.before[id][k]

\* C24 as stated: a refresh sets last_seen_date to the time of the call and
\* leaves every stored field the row does not supply unchanged; batch_id is
\* written only on insert and is the same for all units one call inserts.
C24_OnlyLastSeenChanges ==
    last.op = "upload" =>
        /\ \A id \in Refreshed :
            /\ units[id]["last_seen_date"] = last.t
            /\ FieldsKept(id, DOMAIN last.before[id] \ (SuppliedFields(id) \cup {"last_seen_date"}))
        /\ \A id \in Inserted : units[id]["batch_id"] = last.t
        /\ \A id \in DOMAIN last.before : units[id]["batch_id"] = last.before[id]["batch_id"]

\* C24 amended: a refresh sets last_seen_date to the time of the call and status
\* to available, and leaves every other stored field the row does not supply
\* unchanged, id, first_seen_date, batch_id, latitude and longitude among them;
\* batch_id is written only on insert and is the same for all units one call
\* inserts.
C24_RefreshIsPartialUpdate ==
    last.op = "upload" =>
        /\ \A id \in Refreshed :
            /\ units[id]["last_seen_date"] = last.t
            /\ units[id]["status"] = "available"
            /\ FieldsKept(id, DOMAIN last.before[id]
                                 \ (SuppliedFields(id) \cup {"last_seen_date", "status"}))
            /\ FieldsKept(id, {"id", "first_seen_date", "batch_id", "latitude", "longitude"}
                                 \cap (DOMAIN last.before[id] \ SuppliedFields(id)))
        /\ \A id \in Inserted : units[id]["batch_id"] = last.t
        /\ \A id \in DOMAIN last.before : units[id]["batch_id"] = last.before[id]["batch_id"]

\* C24 witness: one call, a second after the first upload, refreshed a geocoded
\* unit whose status the user had changed and inserted another unit
C24_Witness ==
    /\ last.op = "upload"
    /\ last.t > 0
    /\ \E id \in Refreshed :
          /\ "latitude" \in DOMAIN last.before[id]
          /\ last.before[id]["status"] = "off_market"
          /\ last.before[id]["batch_id"] = 0
          /\ units[id]["latitude"] = Coords["latitude"]
          /\ units[id]["last_seen_date"] = last.t
    /\ \E id \in Inserted : units[id]["batch_id"] = last.t

(***************************************************************************)
(* Properties of concurrent writers (specification SpecRace).              *)
(***************************************************************************)
\* the last operation is the write of the upload that is in upsert, and the
\* document's favorite was changed between that upload's read and its write
FavoriteChangedInBetween ==
    /\ upsert.pc = "done"
    /\ upsert.exists
    /\ last.op = "upload"
    /\ last.ids = {upsert.doc_id}
    /\ last.before[upsert.doc_id]["favorite"] # upsert.existing["favorite"]

\* C30 as stated: when update_favorite_status(unit, v) ran between the read
\* and the write of an upload that refreshes the unit, the stored favorite is
\* v once both have finished.
C30_NoLostFavorite ==
    FavoriteChangedInBetween =>
        units[upsert.doc_id]["favorite"] = last.before[upsert.doc_id]["favorite"]

(***************************************************************************)
(* Properties of reprocessing (specification SpecReprocess).               *)
(***************************************************************************)
\* C26 as stated: after reprocess_existing_data every unit's favorite flag is
\* the one stored before the call.
C26_ReprocessKeepsFavorite ==
    last.op = "reprocess" =>
        \A id \in DOMAIN last.before : units[id]["favorite"] = last.before[id]["favorite"]

StructuredFields == {"subsidy", "amenities", "utilities"}

\* C27 as stated: after reprocess_existing_data every subsidy, amenities and
\* utilities value that was stored as a mapping is stored unchanged.
C27_ReprocessIdempotent ==
    last.op = "reprocess" =>
        \A id \in DOMAIN last.before :
            \A k \in StructuredFields \cap DOMAIN last.before[id] :
                last.before[id][k].kind = "map" =>
                    (k \in DOMAIN units[id] /\ units[id][k] = last.before[id][k])

(***************************************************************************)
(* Properties of the pipeline (specification SpecPass).                    *)
(***************************************************************************)
Sum(r) == r["processed"] + r["geocoding_failed"] + r["scraping_failed"] + r["processed_no_scrape"]

PassOver == passPc \in {"returned", "raised"}

\* the unit has a populated listing_link
HasLink(u) == ListingUrl(u).kind = "str" /\ ListingUrl(u).text # <<>>

GeocodeFailedUnits == {u \in DOMAIN workers : workers[u].geo = "exhausted"}
GeocodedUnits == DOMAIN workers \ GeocodeFailedUnits
LinkedUnits == {u \in GeocodedUnits : HasLink(u)}

\* every unit was geocoded or failed geocoding, every geocoded unit with a link
\* was scraped successfully, and neither the store nor the geocoder raised
AccountingScenario ==
    /\ DOMAIN workers # {}
    /\ \A u \in DOMAIN workers :
        /\ Finished(workers[u])
        /\ workers[u].geo \in {"located", "exhausted"}
        /\ workers[u].err \notin {"store", "geocoder"}
    /\ \A u \in LinkedUnits : workers[u].scr = "ok"

\* C3 as stated: in that scenario the pass returns geocoding_failed = M,
\* processed = K, processed_no_scrape = N - M - K, scraping_failed = 0, and the
\* four counts sum to N.
C3_OutcomeAccounting ==
    (PassOver /\ AccountingScenario) =>
        /\ passPc = "returned"
        /\ results = [geocoding_failed |-> Cardinality(GeocodeFailedUnits),
                      processed |-> Cardinality(LinkedUnits),
                      processed_no_scrape |-> Cardinality(GeocodedUnits \ LinkedUnits),
                      scraping_failed |-> 0]
        /\ Sum(results) = Len(selected)

\* C4 as stated: when the store rejects one unit's write or a collaborator
\* raises for one unit, the pass still returns its counts.
C4_UnitFailureDoesNotAbort ==
    (\E u \in DOMAIN workers : workers[u].err \in {"store", "geocoder"}) => passPc # "raised"

\* C5 as stated: a unit whose listing URL was answered with 404 is counted as
\* Processed and stored with status off_market.
C5_NotFoundIsOffMarket ==
    \A u \in DOMAIN workers :
        (workers[u].scr = "http404" /\ Finished(workers[u])) =>
            /\ workers[u].status = "Processed"
            /\ units[UnitId(u)]["status"] = "off_market"

\* the failure records this pass logged for unit u
FailureRecords(u) ==
    {i \in (failBase + 1)..Len(failures) : failures[i].unit_data = selected[u]}

\* C6: a unit whose geocoding attempts are exhausted gets exactly one failure
\* record with its row and a reason, no coordinates, the outcome Geocoding
\* Failed and no enrichment request; a unit with another outcome gets none.
C6_GeocodeExhaustion ==
    \A u \in DOMAIN workers :
        /\ (workers[u].geo = "exhausted" /\ Finished(workers[u])) =>
            /\ Cardinality(FailureRecords(u)) = 1
            /\ \A i \in FailureRecords(u) : failures[i].reason = "Geocoding failed"
            /\ "latitude" \notin DOMAIN units[UnitId(u)]
            /\ "longitude" \notin DOMAIN units[UnitId(u)]
            /\ workers[u].status = "Geocoding Failed"
            /\ workers[u].scr = "none"
        /\ (Finished(workers[u]) /\ workers[u].status # "Geocoding Failed") =>
            FailureRecords(u) = {}

\* C6 witness: a unit with a listing link has exhausted its attempts and ended
C6_Witness ==
    \E u \in DOMAIN workers :
        /\ workers[u].geo = "exhausted"
        /\ workers[u].pc = "done"
        /\ HasLink(u)
        /\ calls.geocode >= retries

\* the row holds a numeric latitude
NumericLatitude(row) == "latitude" \in DOMAIN row /\ row["latitude"].kind = "float"

\* C7: a pass over units that all have a numeric latitude returns four zero
\* counts and calls neither the geocoder nor the scraper nor the store.
C7_NoOpPass ==
    (passPc # "idle" /\ \A i \in DOMAIN passDf : NumericLatitude(passDf[i])) =>
        /\ passPc = "returned"
        /\ results = ZeroResults
        /\ calls = ZeroCalls
        /\ workers = <<>>
        /\ Len(failures) = failBase

\* C7 witness: a pass over a non-empty, fully geocoded unit table has returned
C7_Witness ==
    /\ passPc = "returned"
    /\ Len(passDf) >= 2
    /\ \A i \in DOMAIN passDf : NumericLatitude(passDf[i])

\* the calls of the geocoding client made for one unit: the attempts without a
\* location, the attempt that returned one, the attempt that raised another error
GeocodeCallsOf(w) ==
    w.attempt + (IF w.geo = "located" THEN 1 ELSE 0) + (IF w.err = "geocoder" THEN 1 ELSE 0)

RECURSIVE TotalGeocodeCalls(_)
TotalGeocodeCalls(ws) ==
    IF ws = <<>> THEN 0 ELSE GeocodeCallsOf(Head(ws)) + TotalGeocodeCalls(Tail(ws))

\* C18: for each unit the geocoding client is called at most 3 times and no
\* call is made outside these; a further attempt follows every attempt without
\* a location (no result, timeout, unavailable) until the third; no attempt
\* follows a location; the unit gets the coordinates of the location if one was
\* returned and otherwise, after exactly 3 attempts, none, without raising.
C18_BoundedGeocodeRetry ==
    /\ calls.geocode = TotalGeocodeCalls(workers)
    /\ \A u \in DOMAIN workers :
        LET w == workers[u]
        IN  /\ GeocodeCallsOf(w) <= retries
            /\ w.pc = "geocode" => (w.attempt < retries /\ w.geo = "none")
            /\ w.geo = "located" => w.attempt < retries
            /\ w.geo = "exhausted" => (w.attempt = retries /\ w.err = "none")
            /\ (w.attempt > 0 /\ w.pc # "geocode" /\ w.err # "geocoder")
                  => w.geo \in {"located", "exhausted"}
            /\ (w.geo = "located" /\ w.pc # "store_coords" /\ w.err # "store")
                  => /\ units[UnitId(u)]["latitude"] = Coords["latitude"]
                     /\ units[UnitId(u)]["longitude"] = Coords["longitude"]

\* C18 witness: a unit got its location on the third attempt and its
\* coordinates are stored
C18_Witness ==
    \E u \in DOMAIN workers :
        /\ workers[u].geo = "located"
        /\ workers[u].attempt = retries - 1
        /\ workers[u].pc = "done"
        /\ units[UnitId(u)]["latitude"] = Coords["latitude"]

\* the outcomes after the geocoding step
ScrapeStepOutcomes == {"Processed", "Scraping Failed", "Processed (No Scrape)"}

\* C19 as stated: the pass selects exactly the units without a numeric
\* latitude, and a selected unit reaches a scraping step or one of the outcomes
\* Processed, Scraping Failed, Processed (No Scrape) only after geocoding was
\* attempted for it.
C19_GeocodeBeforeScrape ==
    passPc # "idle" =>
        /\ \A i \in DOMAIN passDf :
              (\E u \in DOMAIN selected : selected[u] = passDf[i]) <=> ~NumericLatitude(passDf[i])
        /\ \A u \in DOMAIN workers :
              (workers[u].scr # "none" \/ workers[u].pc \in {"scrape", "store_scrape"}
                  \/ workers[u].status \in ScrapeStepOutcomes)
                => GeocodeCallsOf(workers[u]) >= 1

\* C20 as stated: a selected unit that was geocoded and has no listing link ends
\* as Processed (No Scrape) without an enrichment request and without raising.
C20_NoListingPath ==
    \A u \in DOMAIN workers :
        (Finished(workers[u]) /\ workers[u].geo = "located" /\ workers[u].err # "store"
            /\ ~HasLink(u))
          => /\ workers[u].pc = "done"
             /\ workers[u].status = "Processed (No Scrape)"
             /\ workers[u].scr = "none"

\* C12 as stated: in every state of the store, each unit has both latitude and
\* longitude or neither.
C12_CoordinatePairing ==
    \A id \in DOMAIN units :
        ("latitude" \in DOMAIN units[id]) <=> ("longitude" \in DOMAIN units[id])

\* an enrichment request was sent for the unit of worker w
Contacted(w) == w.scr \in {"ok", "http404", "no_response", "http_error"}

\* C21: an enrichment request is sent for a unit only if its geocoding did not
\* fail in this pass and its listing_link is populated and starts with "http";
\* the requests sent are exactly those of such units, one each.
C21_ScrapePrecondition ==
    /\ calls.scrape = Cardinality({u \in DOMAIN workers : Contacted(workers[u])})
    /\ \A u \in DOMAIN workers :
        (Contacted(workers[u]) \/ workers[u].pc = "scrape") =>
            /\ workers[u].geo # "exhausted"
            /\ workers[u].pc # "log_failure"
            /\ HasLink(u)
            /\ StartsWith(ListingUrl(u).text, <<"h", "t", "t", "p">>)

\* C21 witness: one unit was requested after its coordinates were stored, and
\* a unit whose link has another scheme ended without a request
C21_Witness ==
    /\ \E u \in DOMAIN workers :
          Contacted(workers[u]) /\ workers[u].geo = "located" /\ Finished(workers[u])
    /\ \E v \in DOMAIN workers :
          /\ HasLink(v)
          /\ workers[v].scr = "not_sent"
          /\ workers[v].pc = "done"
    /\ calls.scrape = 1

\* the request for the unit of worker w failed with an error other than 404
ScrapeErrored(w) == w.scr \in {"no_response", "http_error"}

\* C22: a step in which a unit's enrichment request fails with a timeout, a
\* connection error or an HTTP error other than 404 ends the unit as Scraping
\* Failed and writes nothing to the store; the unit's record is not written
\* afterwards either, and collecting the unit adds one to scraping_failed.
C22_ScrapeFailureFrame ==
    [][\A u \in DOMAIN workers :
          /\ (workers[u].pc = "scrape" /\ ScrapeErrored(workers'[u])) =>
                /\ workers'[u].pc = "done"
                /\ workers'[u].status = "Scraping Failed"
                /\ units' = units
          /\ (ScrapeErrored(workers[u]) /\ selected' = selected) =>
                /\ units'[UnitId(u)] = units[UnitId(u)]
                /\ (~workers[u].collected /\ workers'[u].collected) =>
                      results'["scraping_failed"] = results["scraping_failed"] + 1]_vars

\* C22 witness: a unit whose coordinates were stored in this pass had its
\* request fail with an HTTP error, and the pass returned counting it
C22_Witness ==
    /\ passPc = "returned"
    /\ results["scraping_failed"] >= 1
    /\ \E u \in DOMAIN workers :
          /\ workers[u].scr = "http_error"
          /\ workers[u].geo = "located"
          /\ workers[u].status = "Scraping Failed"
          /\ units[UnitId(u)]["latitude"] = Coords["latitude"]
          /\ "url" \notin DOMAIN units[UnitId(u)]

\* the batch of unit u
BatchOf(u) == (u - 1) \div batch_size

\* the batches whose progress was reported
CompletedBatches ==
    IF passPc = "returned" /\ Len(selected) > 0 THEN NumBatches(Len(selected)) ELSE batch

\* C23: during a pass at most batch_size units are submitted and not ended, at
\* most max_workers units are being processed, no unit of a batch is taken up
\* before every unit of the batches before it has ended and been collected,
\* and the progress reported after batch i (counted from 0) is
\* (i + 1) / num_batches, one report per completed batch in increasing order.
C23_BoundedInFlight ==
    LET started == {u \in DOMAIN workers : workers[u].pc # "queued"}
        submitted == {u \in DOMAIN workers : BatchOf(u) <= batch}
    IN  /\ Cardinality({u \in submitted \cup started : ~Finished(workers[u])}) <= batch_size
        /\ Cardinality({u \in DOMAIN workers : Running(workers[u])}) <= max_workers
        /\ \A u \in started : \A v \in DOMAIN workers :
              BatchOf(v) < BatchOf(u) => (Finished(workers[v]) /\ workers[v].collected)
        /\ calls.progress = [i \in 1..CompletedBatches |-> <<i, NumBatches(Len(selected))>>]

\* C23 witness: the first of two batches was full and has been collected, its
\* progress 1/2 was reported, and a unit of the second batch is in process
C23_Witness ==
    /\ passPc = "running"
    /\ batch = 1
    /\ calls.progress = <<(<<1, 2>>)>>
    /\ Cardinality(BatchUnits(0)) = batch_size
    /\ \E u \in BatchUnits(1) : Running(workers[u])

\* the ids of the units a pass over the current store would select
SelectedNext ==
    LET df == units_to_process(get_all_units_as_df(units))
    IN  {df[i]["id"].text : i \in DOMAIN df}

\* C28 as stated: a unit that ended as Processed, Processed (No Scrape) or
\* Scraping Failed has a numeric latitude stored and is not selected by a pass
\* over the refreshed unit table; once the pass has returned, the units such a
\* pass selects are exactly those that ended as Geocoding Failed.
C28_PassConvergence ==
    /\ \A u \in DOMAIN workers :
          (workers[u].pc = "done" /\ workers[u].status \in ScrapeStepOutcomes) =>
              /\ NumericLatitude(units[UnitId(u)])
              /\ UnitId(u) \notin SelectedNext
    /\ (passPc = "returned" /\ passes > 0) =>
          SelectedNext = {UnitId(u) : u \in {v \in DOMAIN workers :
                                                workers[v].status = "Geocoding Failed"}}

\* the four outcomes of a unit
TerminalOutcomes == {"Geocoding Failed", "Processed", "Scraping Failed", "Processed (No Scrape)"}

\* a call of the store or of the geocoder raised instead of returning
CollaboratorRaised == \E u \in DOMAIN workers : workers[u].err \in {"store", "geocoder"}

\* C25 as stated: a started pass eventually returns with every selected unit
\* in one of the four outcomes, unless a collaborator call raised.
C25_PassTerminates ==
    (passPc = "running") ~>
        \/ /\ passPc = "returned"
           /\ \A u \in DOMAIN workers :
                 workers[u].pc = "done" /\ workers[u].status \in TerminalOutcomes
        \/ CollaboratorRaised

(***************************************************************************)
(* Properties of the identity deriver (specification SpecId).              *)
(***************************************************************************)
SameUnit(a, b) == SameButCase(a[1], b[1]) /\ SameButCase(a[2], b[2]) /\ a[3] = b[3]

\* C8 as stated: any two calls whose arguments differ at most in the letter
\* case of address and unit yield the same id, blank and punctuation-only
\* arguments included.
C8_AnyInputSameId ==
    \A i, j \in DOMAIN idCalls :
        SameUnit(idCalls[i].args, idCalls[j].args) => idCalls[i].id = idCalls[j].id

\* C8 amended: any two calls whose arguments differ at most in the letter case
\* of address and unit, and whose sanitized text has at least 3 characters,
\* yield the same id; for shorter sanitized text the id is taken from the clock.
C8_IdempotentIdentity ==
    \A i, j \in DOMAIN idCalls :
        /\ (SameUnit(idCalls[i].args, idCalls[j].args)
              /\ Len(SanitizedText(idCalls[i].args[1], idCalls[i].args[2], idCalls[i].args[3])) >= MinIdLen)
             => idCalls[i].id = idCalls[j].id
        /\ Len(SanitizedText(idCalls[i].args[1], idCalls[i].args[2], idCalls[i].args[3])) < MinIdLen
             => idCalls[i].id = FallbackId(idCalls[i].t)

\* C8 witness: two calls at different seconds, the case of the address changed,
\* same id
C8_Witness ==
    \E i, j \in DOMAIN idCalls :
        /\ idCalls[i].t # idCalls[j].t
        /\ idCalls[i].args[1] # idCalls[j].args[1]
        /\ SameUnit(idCalls[i].args, idCalls[j].args)
        /\ idCalls[i].id = idCalls[j].id

\* C29 as stated: two calls whose arguments differ in more than the letter case
\* of address and unit yield different ids.
C29_IdentityInjective ==
    \A i, j \in DOMAIN idCalls :
        ~SameUnit(idCalls[i].args, idCalls[j].args) => idCalls[i].id # idCalls[j].id

(***************************************************************************)
(* Properties of the normalizer (specification SpecNorm).                  *)
(***************************************************************************)
\* the amenities field holds every category with every amenity of the vocabulary
CompleteAmenities(doc) ==
    /\ "amenities" \in DOMAIN doc
    /\ doc["amenities"].kind = "map"
    /\ DOMAIN doc["amenities"].map = DOMAIN AMENITY_CATEGORIES
    /\ \A category \in DOMAIN AMENITY_CATEGORIES :
          DOMAIN doc["amenities"].map[category] = Range(AMENITY_CATEGORIES[category])

\* the utilities field holds every utility of the vocabulary
CompleteUtilities(doc) ==
    /\ "utilities" \in DOMAIN doc
    /\ doc["utilities"].kind = "map"
    /\ DOMAIN doc["utilities"].map = Range(UTILITIES)

\* C13 as stated: every record an upload wrote holds the complete amenities and
\* utilities mappings, whatever the row supplied.
C13_AmenityUtilityComplete ==
    last.op = "upload" =>
        \A id \in last.ids : CompleteAmenities(units[id]) /\ CompleteUtilities(units[id])

\* the text before the first hyphen
BeforeHyphen(s) == IF "-" \in Range(s) THEN SubSeq(s, 1, FirstIndex(s, "-") - 1) ELSE s

FiveDigits(s) == Len(s) = 5 /\ \A i \in DOMAIN s : s[i] \in Range(Digits)

\* the number a text of digits denotes
RECURSIVE NumberOf(_)
NumberOf(d) ==
    IF d = <<>> THEN 0
    ELSE 10 * NumberOf(SubSeq(d, 1, Len(d) - 1))
           + (CHOOSE n \in 0..9 : Digits[n + 1] = d[Len(d)])

\* C16: the normalized output holds zip_code, the integer the digits denote,
\* exactly when the text of the zip cell before its first hyphen, blanks around
\* the cell dropped, is five digits; otherwise it holds no zip_code.
C16_ZipValidation ==
    normOut # NotNormalized =>
        LET cell == normRow["zip_code"]
            head == BeforeHyphen(Strip(Str(cell)))
        IN  IF ~IsBlank(cell) /\ FiveDigits(head)
            THEN /\ "zip_code" \in DOMAIN normOut
                 /\ normOut["zip_code"].kind = "int"
                 /\ NumberOf(normOut["zip_code"].text) = NumberOf(head)
            ELSE "zip_code" \notin DOMAIN normOut

\* C16 witness: a zip text with a suffix after a hyphen was normalized to an integer
C16_Witness ==
    /\ normOut # NotNormalized
    /\ normRow["zip_code"].kind = "str"
    /\ Len(normRow["zip_code"].text) > 6
    /\ "-" \in Range(normRow["zip_code"].text)
    /\ "zip_code" \in DOMAIN normOut
    /\ normOut["zip_code"].kind = "int"

\* the digits of a number text before its decimal point
IntegerPart(s) == IF "." \in Range(s) THEN SubSeq(s, 1, FirstIndex(s, ".") - 1) ELSE s

\* C17 as stated: for a textual parking cell the normalized parking is an
\* integer: 0 when the text holds an absence phrase, otherwise the integer value
\* of the first number of the text, 0 when the text holds no number.
C17_ParkingText ==
    (normOut # NotNormalized /\ normRow["parking"].kind = "str") =>
        LET text == normRow["parking"].text
        IN  /\ "parking" \in DOMAIN normOut
            /\ normOut["parking"].kind = "int"
            /\ NumberOf(normOut["parking"].text) =
                  IF \E phrase \in AbsencePhrases : Contains(Lower(text), phrase) THEN 0
                  ELSE IF FirstNumber(text) # <<>> THEN NumberOf(IntegerPart(FirstNumber(text)))
                  ELSE 0

(***************************************************************************)
(* Properties of the maintenance operations (specification SpecMaint).     *)
(***************************************************************************)
\* C14 as stated: every commit of clear_database, for units and for failure
\* records, carries at most the limit of mutations, and no batch grows beyond
\* the limit before it is committed.
C14_ClearBatching ==
    /\ \A i \in DOMAIN clear.commits : clear.commits[i].size <= MutationLimit
    /\ Cardinality(clear.pending) <= MutationLimit

\* C15 as stated: after Mark as Resolved on a listed record, the record is no
\* longer in the failure log and the failure count is one lower.
C15_ResolveRemoves ==
    (last.op = "resolve" /\ clear.pc = "idle") =>
        \A i \in last.ids :
            /\ \A j \in DOMAIN failures : failures[j] # last.before[i]
            /\ get_geocoding_failure_count(failures)
                 = get_geocoding_failure_count(last.before) - 1
====
